---- MODULE Spec2Model ----
(***************************************************************************)
(* A model of the FitFindr backend core: the recommendation engine         *)
(* (src/core/recommender.py), the feedback manager (src/core/feedback.py)  *)
(* and the JSON document store they share (src/core/storage.py).           *)
(*                                                                         *)
(* Text is modelled as a sequence of one-character strings, so that        *)
(* str.lower(), str.split() and the substring test `a in b` are computed   *)
(* as Python computes them.  Scores that Python reports with round(x, 1)   *)
(* are integers counting tenths; importance weights and sums count         *)
(* hundredths.                                                             *)
(***************************************************************************)
EXTENDS Integers, Sequences, FiniteSets, TLC

VARIABLES
    user_profile,     \* the profile handed to recommend_outfits
    items_json,       \* data/items.json: the catalog, a sequence of items
    feedback_json,    \* data/feedback.json: the feedback event log
    users_json,       \* data/users.json: the stored users with their feedback_history
    recommendations_json,  \* data/recommendations.json: what recommend_route saved last
    reply,            \* what the last completed operation returned
    calls,            \* history: the record_feedback calls completed so far, in order
    next_uuid,        \* the next fresh event id (uuid.uuid4 never repeats)
    pc,               \* per request slot of the event loop: "idle" or "received"
    req               \* per request slot: the request in flight

vars == <<user_profile, items_json, feedback_json, users_json, recommendations_json,
          reply, calls, next_uuid, pc, req>>

----------------------------------------------------------------------------
(* Bounds of the model. *)

MaxCatalog == 3      \* longest catalog drawn for the recommender
MaxLimit == 3        \* largest max_recommendations / limit tried

----------------------------------------------------------------------------
(* Text. *)

Min(a, b) == IF a <= b THEN a ELSE b
Max(a, b) == IF a >= b THEN a ELSE b

UpperToLower ==
    "A" :> "a" @@ "B" :> "b" @@ "C" :> "c" @@ "D" :> "d" @@ "E" :> "e" @@ "F" :> "f" @@
    "G" :> "g" @@ "H" :> "h" @@ "I" :> "i" @@ "J" :> "j" @@ "K" :> "k" @@ "L" :> "l" @@
    "M" :> "m" @@ "N" :> "n" @@ "O" :> "o" @@ "P" :> "p" @@ "Q" :> "q" @@ "R" :> "r" @@
    "S" :> "s" @@ "T" :> "t" @@ "U" :> "u" @@ "V" :> "v" @@ "W" :> "w" @@ "X" :> "x" @@
    "Y" :> "y" @@ "Z" :> "z"

\* str.lower()
Lower(s) == [k \in 1..Len(s) |-> IF s[k] \in DOMAIN UpperToLower THEN UpperToLower[s[k]] ELSE s[k]]

\* the list comprehension [color.lower() for color in xs]
LowerAll(xs) == [k \in 1..Len(xs) |-> Lower(xs[k])]

\* Python's `a in b` for two strings
IsSubstr(a, b) ==
    \/ Len(a) = 0
    \/ \E k \in 0..(Len(b) - Len(a)) : SubSeq(b, k + 1, k + Len(a)) = a

\* Python's `x in xs` for a list
InList(x, xs) == \E k \in 1..Len(xs) : xs[k] = x

\* str.split(): the maximal runs of non-blank characters, in order
RECURSIVE Split(_)
Split(s) ==
    IF s = <<>> THEN <<>>
    ELSE IF Head(s) = " " THEN Split(Tail(s))
    ELSE LET blanks == {k \in 1..Len(s) : s[k] = " "}
             stop == IF blanks = {} THEN Len(s) + 1
                     ELSE CHOOSE k \in blanks : \A j \in blanks : k <= j
         IN  <<SubSeq(s, 1, stop - 1)>> \o Split(SubSeq(s, stop, Len(s)))

\* round(x, 1) of a value given in hundredths; the result counts tenths
\* (an exact tie goes to the even digit, as Python rounds)
Round1(h) ==
    LET q == h \div 10
        r == h % 10
    IN  IF r < 5 THEN q
        ELSE IF r > 5 THEN q + 1
        ELSE IF q % 2 = 0 THEN q ELSE q + 1

\* round(num / den, 1 digit kept) for num >= 0, den > 0: the nearest integer to
\* num / den, the even one of the two when num / den lies halfway between them.
RoundDiv(num, den) ==
    LET q == num \div den
        r == num % den
    IN  IF 2 * r > den \/ (2 * r = den /\ q % 2 = 1) THEN q + 1 ELSE q

----------------------------------------------------------------------------
(* The static tables of OutfitRecommender. *)

compatibility_rules ==
    <<"h","o","u","r","g","l","a","s","s">> :>
        (<<"t","o","p">> :> 85 @@
         <<"b","o","t","t","o","m">> :> 80 @@
         <<"d","r","e","s","s">> :> 90 @@
         <<"o","u","t","e","r","w","e","a","r">> :> 75 @@
         <<"s","h","o","e","s">> :> 70 @@
         <<"a","c","c","e","s","s","o","r","i","e","s">> :> 80) @@
    <<"p","e","a","r">> :>
        (<<"t","o","p">> :> 90 @@
         <<"b","o","t","t","o","m">> :> 75 @@
         <<"d","r","e","s","s">> :> 85 @@
         <<"o","u","t","e","r","w","e","a","r">> :> 80 @@
         <<"s","h","o","e","s">> :> 75 @@
         <<"a","c","c","e","s","s","o","r","i","e","s">> :> 85) @@
    <<"a","p","p","l","e">> :>
        (<<"t","o","p">> :> 70 @@
         <<"b","o","t","t","o","m">> :> 85 @@
         <<"d","r","e","s","s">> :> 80 @@
         <<"o","u","t","e","r","w","e","a","r">> :> 90 @@
         <<"s","h","o","e","s">> :> 80 @@
         <<"a","c","c","e","s","s","o","r","i","e","s">> :> 75) @@
    <<"r","e","c","t","a","n","g","l","e">> :>
        (<<"t","o","p">> :> 80 @@
         <<"b","o","t","t","o","m">> :> 80 @@
         <<"d","r","e","s","s">> :> 85 @@
         <<"o","u","t","e","r","w","e","a","r">> :> 85 @@
         <<"s","h","o","e","s">> :> 75 @@
         <<"a","c","c","e","s","s","o","r","i","e","s">> :> 80) @@
    <<"i","n","v","e","r","t","e","d"," ","t","r","i","a","n","g","l","e">> :>
        (<<"t","o","p">> :> 75 @@
         <<"b","o","t","t","o","m">> :> 90 @@
         <<"d","r","e","s","s">> :> 80 @@
         <<"o","u","t","e","r","w","e","a","r">> :> 70 @@
         <<"s","h","o","e","s">> :> 80 @@
         <<"a","c","c","e","s","s","o","r","i","e","s">> :> 85)

positive_keywords ==
    <<"h","o","u","r","g","l","a","s","s">> :>
        <<<<"b","e","l","t","e","d">>, <<"w","r","a","p">>, <<"f","i","t","t","e","d">>, <<"c","i","n","c","h","e","d">>, <<"d","e","f","i","n","e","d">>>> @@
    <<"p","e","a","r">> :>
        <<<<"f","l","o","w","y">>, <<"a","-","l","i","n","e">>, <<"e","m","p","i","r","e">>, <<"h","i","g","h","-","w","a","i","s","t","e","d">>, <<"s","t","r","u","c","t","u","r","e","d">>>> @@
    <<"a","p","p","l","e">> :>
        <<<<"v","-","n","e","c","k">>, <<"w","r","a","p">>, <<"a","-","l","i","n","e">>, <<"e","m","p","i","r","e">>, <<"f","l","o","w","y">>>> @@
    <<"r","e","c","t","a","n","g","l","e">> :>
        <<<<"s","t","r","u","c","t","u","r","e","d">>, <<"f","i","t","t","e","d">>, <<"b","e","l","t","e","d">>, <<"l","a","y","e","r","e","d">>, <<"t","e","x","t","u","r","e","d">>>> @@
    <<"i","n","v","e","r","t","e","d"," ","t","r","i","a","n","g","l","e">> :>
        <<<<"w","i","d","e","-","l","e","g">>, <<"a","-","l","i","n","e">>, <<"f","l","o","w","y">>, <<"l","a","y","e","r","e","d">>, <<"t","e","x","t","u","r","e","d">>>>

style_keywords ==
    <<"v","i","n","t","a","g","e">> :>
        <<<<"v","i","n","t","a","g","e">>, <<"r","e","t","r","o">>, <<"c","l","a","s","s","i","c">>, <<"t","i","m","e","l","e","s","s">>, <<"a","n","t","i","q","u","e">>>> @@
    <<"s","t","r","e","e","t","w","e","a","r">> :>
        <<<<"s","t","r","e","e","t">>, <<"u","r","b","a","n">>, <<"c","a","s","u","a","l">>, <<"c","o","o","l">>, <<"e","d","g","y">>>> @@
    <<"f","o","r","m","a","l">> :>
        <<<<"e","l","e","g","a","n","t">>, <<"s","o","p","h","i","s","t","i","c","a","t","e","d">>, <<"p","r","o","f","e","s","s","i","o","n","a","l">>, <<"r","e","f","i","n","e","d">>>> @@
    <<"c","a","s","u","a","l">> :>
        <<<<"r","e","l","a","x","e","d">>, <<"c","o","m","f","o","r","t","a","b","l","e">>, <<"e","v","e","r","y","d","a","y">>, <<"e","a","s","y">>>> @@
    <<"b","o","h","e","m","i","a","n">> :>
        <<<<"b","o","h","o">>, <<"f","r","e","e","-","s","p","i","r","i","t","e","d">>, <<"a","r","t","i","s","t","i","c">>, <<"f","l","o","w","y">>>> @@
    <<"m","i","n","i","m","a","l","i","s","t">> :>
        <<<<"c","l","e","a","n">>, <<"s","i","m","p","l","e">>, <<"m","o","d","e","r","n">>, <<"m","i","n","i","m","a","l">>>>

----------------------------------------------------------------------------
(* Inputs of the recommender: a pool of catalog items and of profiles.     *)
(* A key the Python code reads with .get(key, '') and that is absent is    *)
(* the empty text here; an absent list is the empty list.                  *)

ItemPool ==
    { [id |-> "i1",
       title |-> <<"V","i","n","t","a","g","e"," ","B","l","o","u","s","e">>,
       style |-> <<"v","i","n","t","a","g","e">>,
       category |-> <<"t","o","p">>,
       colors |-> <<<<"b","l","a","c","k">>>>,
       description |-> <<>>,
       likes |-> 100, saves |-> 50],
      [id |-> "i2",
       title |-> <<"B","e","l","t","e","d"," ","W","r","a","p"," ","D","r","e","s","s">>,
       style |-> <<"F","o","r","m","a","l">>,
       category |-> <<"d","r","e","s","s">>,
       colors |-> <<<<"N","a","v","y">>, <<"w","h","i","t","e">>>>,
       description |-> <<"f","i","t","t","e","d"," ","c","l","a","s","s","i","c"," ","r","e","t","r","o">>,
       likes |-> 1000, saves |-> 500],
      [id |-> "i3",
       title |-> <<"W","i","d","e","-","L","e","g"," ","J","e","a","n","s">>,
       style |-> <<"s","t","r","e","e","t"," ","s","t","y","l","e"," ","c","a","s","u","a","l">>,
       category |-> <<"b","o","t","t","o","m">>,
       colors |-> <<<<"b","l","u","e">>>>,
       description |-> <<"u","r","b","a","n"," ","c","o","o","l">>,
       likes |-> 50, saves |-> 50],
      [id |-> "i4",
       title |-> <<"S","n","e","a","k","e","r","s">>,
       style |-> <<>>,
       category |-> <<"s","h","o","e","s">>,
       colors |-> <<>>,
       description |-> <<>>,
       likes |-> 0, saves |-> 0],
      [id |-> "i5",
       title |-> <<"B","o","h","o"," ","H","a","t">>,
       style |-> <<"b","o","h","o">>,
       category |-> <<"h","a","t">>,
       colors |-> <<<<"b","l","a","c","k">>>>,
       description |-> <<"t","i","m","e","l","e","s","s"," ","F","l","o","w","y">>,
       likes |-> 500, saves |-> 300] }

BodyShapes == { <<>>, <<"H","o","u","r","g","l","a","s","s">>, <<"p","e","a","r">> }
PreferredStyles == { <<>>,
                     <<"v","i","n","t","a","g","e">>,
                     <<"V","i","n","t","a","g","e"," ","S","t","r","e","e","t","w","e","a","r">>,
                     <<"g","r","u","n","g","e">> }
ColorLists == { <<>>, <<<<"B","l","a","c","k">>, <<"n","a","v","y">>>>, <<<<"r","e","d">>>> }

Profiles ==
    [body_shape : BodyShapes, preferred_style : PreferredStyles,
     recommended_colors : ColorLists]

\* the sequences of at most n pool items, no item twice (catalog ids are unique)
RECURSIVE CatalogsUpTo(_)
CatalogsUpTo(n) ==
    IF n = 0 THEN {<<>>}
    ELSE LET shorter == CatalogsUpTo(n - 1)
         IN  shorter \cup
             {Append(c, it) : <<c, it>> \in
                 {<<c, it>> \in shorter \X ItemPool :
                     /\ Len(c) = n - 1
                     /\ \A k \in 1..Len(c) : c[k].id # it.id}}

Limits == (0..MaxLimit) \cup {-1}

----------------------------------------------------------------------------
(* OutfitRecommender: the weights, counting hundredths (0.4 is 40). *)

weight_fit == 40
weight_style == 30
weight_trend == 20
weight_feedback == 10

\* _filter_items_by_preferences: the style gate of one item
StyleMatch(user_profile_, item) ==
    LET user_style == Lower(user_profile_.preferred_style)
        item_style == Lower(item.style)
        tokens == Split(user_style)
    IN  \/ user_style = <<>>
        \/ IsSubstr(user_style, item_style)
        \/ IsSubstr(item_style, user_style)
        \/ \E k \in 1..Len(tokens) : IsSubstr(tokens[k], item_style)

\* ColorMatch that compares the colors as they are written
ColorMatch_case_sensitive(user_profile_, item) ==
    \/ user_profile_.recommended_colors = <<>>
    \/ \E k \in 1..Len(user_profile_.recommended_colors) :
           InList(user_profile_.recommended_colors[k], item.colors)

\* _filter_items_by_preferences: the color gate of one item
ColorMatch(user_profile_, item) ==
    LET recommended_colors == LowerAll(user_profile_.recommended_colors)
        item_colors == LowerAll(item.colors)
    IN  \/ recommended_colors = <<>>
        \/ \E k \in 1..Len(recommended_colors) : InList(recommended_colors[k], item_colors)
        \/ \E k \in 1..Len(item_colors) : InList(item_colors[k], recommended_colors)

\* filter_items_by_preferences that leaves out the first item passing both gates
filter_items_by_preferences_but_first(user_profile_, items) ==
    LET Passes(item) == StyleMatch(user_profile_, item) /\ ColorMatch(user_profile_, item)
        passing == SelectSeq(items, Passes)
    IN  IF passing = <<>> THEN <<>> ELSE Tail(passing)

\* _filter_items_by_preferences: the items passing both gates, in order
RECURSIVE filter_items_by_preferences(_, _)
filter_items_by_preferences(user_profile_, items) ==
    IF items = <<>> THEN <<>>
    ELSE LET rest == filter_items_by_preferences(user_profile_, Tail(items))
         IN  IF StyleMatch(user_profile_, Head(items)) /\ ColorMatch(user_profile_, Head(items))
             THEN <<Head(items)>> \o rest
             ELSE rest

\* how many keywords of the list occur in one of the texts
KeywordHits(keywords, texts) ==
    Cardinality({k \in 1..Len(keywords) :
                    \E t \in 1..Len(texts) : IsSubstr(keywords[k], texts[t])})

\* calculate_fit_score without the final min(..., 100)
calculate_fit_score_unclamped(user_profile_, item) ==
    LET body_shape == Lower(user_profile_.body_shape)
        item_category == Lower(item.category)
        row == IF body_shape \in DOMAIN compatibility_rules
               THEN compatibility_rules[body_shape] ELSE <<>>
        base_score == IF item_category \in DOMAIN row THEN row[item_category] ELSE 75
        keywords == IF body_shape \in DOMAIN positive_keywords
                    THEN positive_keywords[body_shape] ELSE <<>>
    IN  base_score + 5 * KeywordHits(keywords, <<Lower(item.title), Lower(item.description)>>)

\* calculate_fit_score that looks for the keywords in the title only
calculate_fit_score_title_only(user_profile_, item) ==
    LET body_shape == Lower(user_profile_.body_shape)
        item_category == Lower(item.category)
        row == IF body_shape \in DOMAIN compatibility_rules
               THEN compatibility_rules[body_shape] ELSE <<>>
        base_score == IF item_category \in DOMAIN row THEN row[item_category] ELSE 75
        keywords == IF body_shape \in DOMAIN positive_keywords
                    THEN positive_keywords[body_shape] ELSE <<>>
    IN  Min(base_score + 5 * KeywordHits(keywords, <<Lower(item.title)>>), 100)

\* _calculate_fit_score
calculate_fit_score(user_profile_, item) ==
    LET body_shape == Lower(user_profile_.body_shape)
        item_category == Lower(item.category)
        row == IF body_shape \in DOMAIN compatibility_rules
               THEN compatibility_rules[body_shape] ELSE <<>>
        base_score == IF item_category \in DOMAIN row THEN row[item_category] ELSE 75
        keywords == IF body_shape \in DOMAIN positive_keywords
                    THEN positive_keywords[body_shape] ELSE <<>>
        keyword_bonus == 5 * KeywordHits(keywords, <<Lower(item.title), Lower(item.description)>>)
    IN  Min(base_score + keyword_bonus, 100)

\* calculate_style_score that gives the neutral 75 to a style without keyword list
calculate_style_score_unlisted_neutral(user_profile_, item) ==
    LET user_style == Lower(user_profile_.preferred_style)
        item_style == Lower(item.style)
        user_keywords == IF user_style \in DOMAIN style_keywords
                         THEN style_keywords[user_style] ELSE <<>>
        matches == KeywordHits(user_keywords,
                       <<item_style, Lower(item.title), Lower(item.description)>>)
    IN  IF user_style = <<>> \/ user_style \notin DOMAIN style_keywords THEN 75
        ELSE IF IsSubstr(user_style, item_style) \/ IsSubstr(item_style, user_style) THEN 90
        ELSE IF matches > 0 THEN 70 + matches * 5
        ELSE 60

\* _calculate_style_score
calculate_style_score(user_profile_, item) ==
    LET user_style == Lower(user_profile_.preferred_style)
        item_style == Lower(item.style)
        user_keywords == IF user_style \in DOMAIN style_keywords
                         THEN style_keywords[user_style] ELSE <<>>
        matches == KeywordHits(user_keywords,
                       <<item_style, Lower(item.title), Lower(item.description)>>)
    IN  IF user_style = <<>> THEN 75
        ELSE IF IsSubstr(user_style, item_style) \/ IsSubstr(item_style, user_style) THEN 90
        ELSE IF matches > 0 THEN 70 + matches * 5
        ELSE 60

----------------------------------------------------------------------------
(* engagement_score = (likes * 0.7) + (saves * 1.3) is computed in IEEE 754 *)
(* doubles: 50 * 0.7 + 50 * 1.3 is 100.0, 6 * 0.7 + 766 * 1.3 is            *)
(* 1000.0000000000001 and 141 * 0.7 + 1 * 1.3 is 99.99999999999999.  A       *)
(* non-negative double x is held as the integer x * 2^53 in three limbs,     *)
(* hi * 2^54 + mid * 2^27 + lo; likes and saves are counts below 2^20.       *)

Limb == 134217728     \* 2^27

\* the doubles 0.7 (0x1.6666666666666p-1), 1.3 (0x1.4cccccccccccdp+0) and 1.0
double_0_7 == [hi |-> 0, mid |-> 46976204, lo |-> 107374182]
double_1_3 == [hi |-> 0, mid |-> 87241523, lo |-> 26843546]
double_1_0 == [hi |-> 0, mid |-> 67108864, lo |-> 0]

\* a + b, exact
WideAdd(a, b) ==
    LET lo == a.lo + b.lo
        mid == a.mid + b.mid + lo \div Limb
    IN  [hi |-> a.hi + b.hi + mid \div Limb, mid |-> mid % Limb, lo |-> lo % Limb]

\* n * a, exact
RECURSIVE WideTimes(_, _)
WideTimes(n, a) ==
    IF n = 0 THEN [hi |-> 0, mid |-> 0, lo |-> 0]
    ELSE LET half == WideTimes(n \div 2, a)
             twice == WideAdd(half, half)
         IN  IF n % 2 = 1 THEN WideAdd(twice, a) ELSE twice

WideLess(a, b) ==
    \/ a.hi < b.hi
    \/ a.hi = b.hi /\ a.mid < b.mid
    \/ a.hi = b.hi /\ a.mid = b.mid /\ a.lo < b.lo

RECURSIVE BitLength(_)
BitLength(n) == IF n = 0 THEN 0 ELSE 1 + BitLength(n \div 2)

WideBitLength(a) ==
    IF a.hi > 0 THEN 54 + BitLength(a.hi)
    ELSE IF a.mid > 0 THEN 27 + BitLength(a.mid)
    ELSE BitLength(a.lo)

\* the nearest double, the even one of two equally near: 53 significant bits are kept
WideRound(a) ==
    LET extra == WideBitLength(a) - 53
        g == 2 ^ extra
        r == a.lo % g
        down == [a EXCEPT !.lo = a.lo - r]
    IN  IF extra <= 0 THEN a
        ELSE IF 2 * r > g \/ (2 * r = g /\ (down.lo \div g) % 2 = 1)
             THEN WideAdd(down, [hi |-> 0, mid |-> 0, lo |-> g])
             ELSE down

\* int * float: the count is converted exactly, the product is rounded once
DoubleTimes(n, x) == WideRound(WideTimes(n, x))

\* _calculate_trend_score, line 203: engagement_score
engagement_score(item) ==
    WideRound(WideAdd(DoubleTimes(item.likes, double_0_7),
                      DoubleTimes(item.saves, double_1_3)))

\* _calculate_trend_score
calculate_trend_score(item) ==
    IF WideLess(WideTimes(1000, double_1_0), engagement_score(item)) THEN 100
    ELSE IF WideLess(WideTimes(500, double_1_0), engagement_score(item)) THEN 80
    ELSE IF WideLess(WideTimes(100, double_1_0), engagement_score(item)) THEN 60
    ELSE 40

\* _calculate_feedback_score
calculate_feedback_score(user_profile_, item) == 75

\* _generate_score_explanation: the tier, by the score in hundredths
generate_score_explanation(overall_score) ==
    IF overall_score >= 8500 THEN "Excellent match!"
    ELSE IF overall_score >= 7500 THEN "Great choice!"
    ELSE IF overall_score >= 6500 THEN "Good option!"
    ELSE "Consider alternatives."

\* _generate_styling_tips: category tips, then body shape tips, the first three
generate_styling_tips(user_profile_, item) ==
    LET body_shape == Lower(user_profile_.body_shape)
        item_category == Lower(item.category)
        by_category ==
            IF item_category = <<"t","o","p">>
            THEN <<"Tuck in for a more polished look", "Layer with a jacket or cardigan">>
            ELSE IF item_category = <<"b","o","t","t","o","m">>
            THEN <<"Pair with a fitted top to balance proportions",
                   "Consider the right footwear for the occasion">>
            ELSE IF item_category = <<"o","u","t","e","r","w","e","a","r">>
            THEN <<"Layer over a simple base", "Belt it for a more defined silhouette">>
            ELSE <<>>
        by_shape ==
            IF body_shape = <<"h","o","u","r","g","l","a","s","s">>
            THEN <<"Emphasize your waist with a belt",
                   "Choose fitted silhouettes that follow your curves">>
            ELSE IF body_shape = <<"p","e","a","r">>
            THEN <<"Balance with a statement top", "Draw attention upward with accessories">>
            ELSE IF body_shape = <<"a","p","p","l","e">>
            THEN <<"Create vertical lines with your outfit",
                   "Choose pieces that skim rather than cling">>
            ELSE <<>>
        tips == by_category \o by_shape
    IN  SubSeq(tips, 1, Min(3, Len(tips)))

\* _calculate_item_score: the score fields; those rounded with round(x, 1) count tenths
calculate_item_score(user_profile_, item) ==
    LET fit_score == calculate_fit_score(user_profile_, item)
        style_score == calculate_style_score(user_profile_, item)
        trend_score == calculate_trend_score(item)
        feedback_score == calculate_feedback_score(user_profile_, item)
        overall_score == fit_score * weight_fit + style_score * weight_style
                         + trend_score * weight_trend + feedback_score * weight_feedback
    IN  [fit_score |-> Round1(fit_score * 100),
         style_score |-> Round1(style_score * 100),
         trend_score |-> Round1(trend_score * 100),
         feedback_score |-> Round1(feedback_score * 100),
         overall_score |-> Round1(overall_score),
         explanation |-> generate_score_explanation(overall_score),
         styling_tips |-> generate_styling_tips(user_profile_, item)]

\* {**item, **score_data, "recommended_at": now}: on a key that several hold the one
\* written last wins, `now` being the reading of the clock
ScoredItem(user_profile_, item, now) ==
    [recommended_at |-> now] @@ calculate_item_score(user_profile_, item) @@ item

\* InsertByScore that puts x ahead of the elements of equal score
InsertByScore_unstable(sorted, x) ==
    LET ahead == {k \in 1..Len(sorted) : sorted[k].overall_score > x.overall_score}
        n == Cardinality(ahead)
    IN  SubSeq(sorted, 1, n) \o <<x>> \o SubSeq(sorted, n + 1, Len(sorted))

\* list.sort(key=overall_score, reverse=True): x goes behind every element whose
\* score is at least its own, so equal scores keep the order they came in
InsertByScore(sorted, x) ==
    LET ahead == {k \in 1..Len(sorted) : sorted[k].overall_score >= x.overall_score}
        n == Cardinality(ahead)
    IN  SubSeq(sorted, 1, n) \o <<x>> \o SubSeq(sorted, n + 1, Len(sorted))

RECURSIVE SortByScore(_)
SortByScore(s) ==
    IF s = <<>> THEN <<>>
    ELSE InsertByScore(SortByScore(SubSeq(s, 1, Len(s) - 1)), s[Len(s)])

\* the slice xs[:n]
Slice(xs, n) ==
    IF n >= 0 THEN SubSeq(xs, 1, Min(n, Len(xs)))
    ELSE SubSeq(xs, 1, Max(0, Len(xs) + n))

\* WorkingSet without the fallback to all items
WorkingSet_no_fallback(user_profile_, available_items) ==
    filter_items_by_preferences(user_profile_, available_items)

\* the working set of recommend_outfits: the filtered items, or all when none passes
WorkingSet(user_profile_, available_items) ==
    LET filtered_items == filter_items_by_preferences(user_profile_, available_items)
    IN  IF filtered_items = <<>> THEN available_items ELSE filtered_items

\* recommend_outfits, `now` being the reading of the clock during the call
recommend_outfits(user_profile_, available_items, max_recommendations, now) ==
    LET filtered_items == WorkingSet(user_profile_, available_items)
        scored_items == [k \in 1..Len(filtered_items) |->
                            ScoredItem(user_profile_, filtered_items[k], now)]
    IN  Slice(SortByScore(scored_items), max_recommendations)

----------------------------------------------------------------------------
(* OutfitRecommender.create_outfit_combinations.  random.choice is a free  *)
(* choice among the candidates.  total_score and style_cohesion count      *)
(* tenths, like the scores of the items.                                   *)

\* the categories an outfit takes an item from, in the order it takes them, and how
\* many of the best items of each are candidates (tops[:3], ..., accessories[:2])
outfit_categories ==
    << <<"t","o","p">>, <<"b","o","t","t","o","m">>, <<"o","u","t","e","r","w","e","a","r">>, <<"s","h","o","e","s">>, <<"a","c","c","e","s","s","o","r","i","e","s">> >>

outfit_candidates == <<3, 3, 2, 2, 2>>

\* categories.get(category, [])[:k] for each of the five categories
Candidates(recommendations) ==
    [c \in 1..Len(outfit_categories) |->
        LET OfCategory(item) == item.category = outfit_categories[c]
        IN  Slice(SelectSeq(recommendations, OfCategory), outfit_candidates[c])]

\* what the random.choice calls of one outfit can return: for each category the
\* position of a candidate, 0 when the category has none
Picks(cands) ==
    {pick \in [1..Len(cands) -> 0..3] :
        \A c \in 1..Len(cands) :
            IF cands[c] = <<>> THEN pick[c] = 0 ELSE pick[c] \in 1..Len(cands[c])}

\* OutfitItems that takes every candidate of each category
OutfitItems_every_candidate(cands, pick) ==
    cands[1] \o cands[2] \o cands[3] \o cands[4] \o cands[5]

\* outfit["items"] after the five `if ...: append(random.choice(...))`
OutfitItems(cands, pick) ==
    LET Chosen(c) == IF pick[c] = 0 THEN <<>> ELSE <<cands[c][pick[c]]>>
    IN  Chosen(1) \o Chosen(2) \o Chosen(3) \o Chosen(4) \o Chosen(5)

RECURSIVE SumOverall(_)
SumOverall(items) ==
    IF items = <<>> THEN 0
    ELSE SumOverall(SubSeq(items, 1, Len(items) - 1)) + items[Len(items)].overall_score

\* MeanScore that adds the scores up and does not divide
MeanScore_sum(items) == SumOverall(items)

\* round(sum(scores) / len(scores), 1) for a non-empty outfit.  The overall scores
\* of ranked items are multiples of 0.5 (every component score is a multiple of 5),
\* so their floating-point sum is exact, and a mean that lies halfway between two
\* tenths is a multiple of 0.125, exact as well: round() then takes the even tenth.
MeanScore(items) == RoundDiv(SumOverall(items), Len(items))

\* calculate_style_cohesion without the max(20, ...)
calculate_style_cohesion_unfloored(items) ==
    IF Len(items) < 2 THEN 500
    ELSE LET unique_styles == Cardinality({Lower(items[k].style) : k \in 1..Len(items)})
         IN  (100 - unique_styles * 20) * 10

\* _calculate_style_cohesion
calculate_style_cohesion(items) ==
    IF Len(items) < 2 THEN 500
    ELSE LET unique_styles == Cardinality({Lower(items[k].style) : k \in 1..Len(items)})
         IN  Max(20, 100 - unique_styles * 20) * 10

\* the outfit one pass of the loop body builds, `pick` being what its random.choice
\* calls return; `now` is the clock reading
Outfit(i, cands, pick, now) ==
    LET items == OutfitItems(cands, pick)
    IN  IF items = <<>>
        THEN [outfit_id |-> i, items |-> <<>>, total_score |-> 0,
              style_cohesion |-> 0, created_at |-> now]
        ELSE [outfit_id |-> i, items |-> items, total_score |-> MeanScore(items),
              style_cohesion |-> calculate_style_cohesion(items), created_at |-> now]

\* range(min(5, len(recommendations)))
OutfitCount(recommendations) == Min(5, Len(recommendations))

\* create_outfit_combinations
create_outfit_combinations(recommendations, picks, now) ==
    [i \in 1..OutfitCount(recommendations) |->
        Outfit(i, Candidates(recommendations), picks[i], now)]

----------------------------------------------------------------------------
(* FeedbackManager and the document store.                                 *)
(* Importance weights and their sums count thousandths (1.0 is 1000); the  *)
(* floating-point sum of a few weights is within 1e-12 of this exact sum.  *)

feedback_types == <<"like", "dislike", "save", "share", "view">>

importance_weights ==
    "like" :> 1000 @@ "dislike" :> -800 @@ "save" :> 900 @@ "share" :> 700 @@ "view" :> 300

\* round(x, 2) of a value given in thousandths; the result counts hundredths
Round2(t) == Round1(t)

\* dict.get(key, default)
Get(d, key, default) == IF key \in DOMAIN d THEN d[key] ELSE default

\* the record that FeedbackManager.record_feedback builds; n stands for the fresh
\* uuid and for the clock reading of the timestamp
feedback_record(n, user_id, item_id, feedback_type) ==
    [id |-> n,
     user_id |-> user_id,
     item_id |-> item_id,
     feedback_type |-> feedback_type,
     timestamp |-> n,
     importance |-> Get(importance_weights, feedback_type, 500)]

\* storage.append_json: the loaded list with the new entry at its end
append_json(existing_data, new_data) == Append(existing_data, new_data)

\* list.remove(x) when x is in the list: the first occurrence goes
RemoveFirst(xs, x) ==
    LET k == CHOOSE k \in 1..Len(xs) : xs[k] = x /\ \A j \in 1..(k - 1) : xs[j] # x
    IN  SubSeq(xs, 1, k - 1) \o SubSeq(xs, k + 1, Len(xs))

\* `if x not in xs: xs.append(x)`
AppendIfMissing(xs, x) == IF InList(x, xs) THEN xs ELSE Append(xs, x)

\* `if x in xs: xs.remove(x)`
RemoveIfPresent(xs, x) == IF InList(x, xs) THEN RemoveFirst(xs, x) ELSE xs

\* next((u for u in users if u.get("id") == user_id), None): the index, 0 for None
FindUser(users, user_id) ==
    LET hits == {k \in 1..Len(users) : users[k].id = user_id}
    IN  IF hits = {} THEN 0 ELSE CHOOSE k \in hits : \A j \in hits : k <= j

EmptyHistory == [liked_items |-> <<>>, disliked_items |-> <<>>, saved_items |-> <<>>]

\* UpdatedUser that adds to the one list and leaves the opposite list alone
UpdatedUser_keeps_opposite(user, item_id, feedback_type) ==
    LET h == Get(user, "feedback_history", EmptyHistory)
        updated ==
            IF feedback_type = "like"
            THEN [h EXCEPT !.liked_items = AppendIfMissing(@, item_id)]
            ELSE IF feedback_type = "dislike"
            THEN [h EXCEPT !.disliked_items = AppendIfMissing(@, item_id)]
            ELSE IF feedback_type = "save"
            THEN [h EXCEPT !.saved_items = AppendIfMissing(@, item_id)]
            ELSE h
    IN  [id |-> user.id, feedback_history |-> updated]

\* _update_user_preferences, lines 83-111: the user's record after the update
UpdatedUser(user, item_id, feedback_type) ==
    LET h == Get(user, "feedback_history", EmptyHistory)
        updated ==
            IF feedback_type = "like"
            THEN [h EXCEPT !.liked_items = AppendIfMissing(@, item_id),
                           !.disliked_items = RemoveIfPresent(@, item_id)]
            ELSE IF feedback_type = "dislike"
            THEN [h EXCEPT !.disliked_items = AppendIfMissing(@, item_id),
                           !.liked_items = RemoveIfPresent(@, item_id)]
            ELSE IF feedback_type = "save"
            THEN [h EXCEPT !.saved_items = AppendIfMissing(@, item_id)]
            ELSE h
    IN  [id |-> user.id, feedback_history |-> updated]

\* _update_user_preferences: the list it hands to save_json; it is called only
\* for a user that FindUser found
update_user_preferences(users, user_id, item_id, feedback_type) ==
    [users EXCEPT ![FindUser(users, user_id)] = UpdatedUser(@, item_id, feedback_type)]

\* the loop `breakdown[t] = breakdown.get(t, 0) + 1` over a list of events
RECURSIVE Breakdown(_)
Breakdown(events) ==
    IF events = <<>> THEN <<>>
    ELSE LET before == Breakdown(SubSeq(events, 1, Len(events) - 1))
             t == events[Len(events)].feedback_type
         IN  IF t \in DOMAIN before THEN [before EXCEPT ![t] = @ + 1]
             ELSE before @@ (t :> 1)

\* sum(f.get("importance", 0) for f in events)
RECURSIVE SumImportance(_)
SumImportance(events) ==
    IF events = <<>> THEN 0
    ELSE SumImportance(SubSeq(events, 1, Len(events) - 1)) + events[Len(events)].importance

\* get_user_feedback_summary over the whole log, the user's events not selected
get_user_feedback_summary_all_users(feedback_data, user_id) ==
    IF feedback_data = <<>>
    THEN [total_feedback |-> 0,
          feedback_breakdown |-> <<>>,
          preferred_categories |-> <<>>,
          preferred_styles |-> <<>>,
          engagement_score |-> 0]
    ELSE [total_feedback |-> Len(feedback_data),
          feedback_breakdown |-> Breakdown(feedback_data),
          engagement_score |-> Round2(SumImportance(feedback_data)),
          last_feedback |-> feedback_data[Len(feedback_data)].timestamp]

\* get_user_feedback_summary
get_user_feedback_summary(feedback_data, user_id) ==
    LET OfUser(f) == f.user_id = user_id
        user_feedback == SelectSeq(feedback_data, OfUser)
    IN  IF user_feedback = <<>>
        THEN [total_feedback |-> 0,
              feedback_breakdown |-> <<>>,
              preferred_categories |-> <<>>,
              preferred_styles |-> <<>>,
              engagement_score |-> 0]
        ELSE [total_feedback |-> Len(user_feedback),
              feedback_breakdown |-> Breakdown(user_feedback),
              engagement_score |-> Round2(SumImportance(user_feedback)),
              last_feedback |-> user_feedback[Len(user_feedback)].timestamp]

\* the item ids that get_trending_items scores: an event without item id is skipped
ScoredIds(feedback_data) ==
    {feedback_data[k].item_id : k \in {j \in 1..Len(feedback_data) :
                                          feedback_data[j].item_id # ""}}

\* get_trending_items, lines 224-236: item_scores[item_id], in thousandths
item_score(feedback_data, item_id) ==
    LET OfItem(f) == f.item_id = item_id
    IN  SumImportance(SelectSeq(feedback_data, OfItem))

----------------------------------------------------------------------------
(* The sums get_trending_items sorts by are IEEE 754 doubles, added in the  *)
(* order of the log: 0.3 + 0.3 + 0.3 is below 0.9.  A double x is held as   *)
(* the integer x * 2^54, which every weight and every sum of a few weights  *)
(* is: its sign, and its magnitude as hi * 2^27 + lo.                       *)

DoubleBase == 134217728     \* 2^27

\* the double that json reads for an importance, given in thousandths
DoubleOf ==
    1000 :> [neg |-> FALSE, hi |-> 134217728, lo |-> 0]
    @@ (-800) :> [neg |-> TRUE, hi |-> 107374182, lo |-> 53687092]
    @@ 900 :> [neg |-> FALSE, hi |-> 120795955, lo |-> 26843546]
    @@ 700 :> [neg |-> FALSE, hi |-> 93952409, lo |-> 80530636]
    @@ 300 :> [neg |-> FALSE, hi |-> 40265318, lo |-> 53687091]
    @@ 500 :> [neg |-> FALSE, hi |-> 67108864, lo |-> 0]
    @@ 0 :> [neg |-> FALSE, hi |-> 0, lo |-> 0]

DoubleZero == [neg |-> FALSE, hi |-> 0, lo |-> 0]

MagLess(a, b) == a.hi < b.hi \/ (a.hi = b.hi /\ a.lo < b.lo)

MagAdd(a, b) ==
    [hi |-> a.hi + b.hi + (a.lo + b.lo) \div DoubleBase, lo |-> (a.lo + b.lo) % DoubleBase]

\* a - b for a >= b
MagSub(a, b) ==
    IF a.lo >= b.lo THEN [hi |-> a.hi - b.hi, lo |-> a.lo - b.lo]
    ELSE [hi |-> a.hi - b.hi - 1, lo |-> a.lo + DoubleBase - b.lo]

\* the spacing of the doubles around a magnitude below 16, in units of 2^-54: a
\* double has 53 significant bits
DoubleSpacing(m) ==
    IF m.hi < DoubleBase \div 2 THEN 1
    ELSE IF m.hi < DoubleBase THEN 2
    ELSE IF m.hi < DoubleBase * 2 THEN 4
    ELSE IF m.hi < DoubleBase * 4 THEN 8
    ELSE IF m.hi < DoubleBase * 8 THEN 16
    ELSE 32

\* round to nearest double, ties to the even one
MagRound(m) ==
    LET g == DoubleSpacing(m)
        r == m.lo % g
        down == m.lo - r
        lo == IF 2 * r > g \/ (2 * r = g /\ (down \div g) % 2 = 1) THEN down + g ELSE down
    IN  IF lo = DoubleBase THEN [hi |-> m.hi + 1, lo |-> 0] ELSE [hi |-> m.hi, lo |-> lo]

Signed(neg, m) == [neg |-> neg, hi |-> m.hi, lo |-> m.lo]

\* x + y of two doubles
DoubleAdd(x, y) ==
    IF x.neg = y.neg THEN Signed(x.neg, MagRound(MagAdd(x, y)))
    ELSE IF MagLess(x, y) THEN Signed(y.neg, MagRound(MagSub(y, x)))
    ELSE IF MagLess(y, x) THEN Signed(x.neg, MagRound(MagSub(x, y)))
    ELSE DoubleZero

\* x < y of two doubles
DoubleLess(x, y) ==
    IF x.neg /\ ~y.neg THEN TRUE
    ELSE IF ~x.neg /\ y.neg THEN FALSE
    ELSE IF x.neg THEN MagLess(y, x)
    ELSE MagLess(x, y)

\* get_trending_items, lines 225-236: item_scores[item_id] as the code holds it
RECURSIVE double_item_score(_, _)
double_item_score(feedback_data, item_id) ==
    IF feedback_data = <<>> THEN DoubleZero
    ELSE LET before == double_item_score(SubSeq(feedback_data, 1, Len(feedback_data) - 1),
                                         item_id)
             f == feedback_data[Len(feedback_data)]
         IN  IF f.item_id = item_id THEN DoubleAdd(before, DoubleOf[f.importance])
             ELSE before

\* the keys of item_scores in the order a dict keeps them: by first event in the log
RECURSIVE ScoredIdsInOrder(_)
ScoredIdsInOrder(feedback_data) ==
    IF feedback_data = <<>> THEN <<>>
    ELSE LET before == ScoredIdsInOrder(SubSeq(feedback_data, 1, Len(feedback_data) - 1))
             id == feedback_data[Len(feedback_data)].item_id
         IN  IF id = "" \/ InList(id, before) THEN before ELSE Append(before, id)

\* sorted(..., reverse=True) is stable: an id goes behind every id whose sum is at
\* least its own
RECURSIVE SortIdsByScore(_, _)
SortIdsByScore(feedback_data, ids) ==
    IF ids = <<>> THEN <<>>
    ELSE LET sorted == SortIdsByScore(feedback_data, SubSeq(ids, 1, Len(ids) - 1))
             x == ids[Len(ids)]
             ahead == {k \in 1..Len(sorted) :
                          ~DoubleLess(double_item_score(feedback_data, sorted[k]),
                                      double_item_score(feedback_data, x))}
             n == Cardinality(ahead)
         IN  SubSeq(sorted, 1, n) \o <<x>> \o SubSeq(sorted, n + 1, Len(sorted))

\* SortedItemIds that lets ids of equal exact sum come in any order
SortedItemIds_any_tie_order(feedback_data) ==
    LET ids == ScoredIds(feedback_data)
        n == Cardinality(ids)
    IN  {r \in [1..n -> ids] :
            /\ \A a, b \in 1..n : a # b => r[a] # r[b]
            /\ \A a, b \in 1..n :
                   a < b => item_score(feedback_data, r[a]) >= item_score(feedback_data, r[b])}

\* get_trending_items, line 239: the ids in the order sorted() puts them, as the one
\* element of a set
SortedItemIds(feedback_data) ==
    {SortIdsByScore(feedback_data, ScoredIdsInOrder(feedback_data))}

\* get_trending_items that keeps the last `limit` ids of the sort, not the first
get_trending_items_lowest(feedback_data, items_data, limit, sorted_ids) ==
    LET n == Len(sorted_ids)
        trending_item_ids == SubSeq(sorted_ids, Max(1, n - limit + 1), n)
        Trending(item) == InList(item.id, trending_item_ids)
        picked == SelectSeq(items_data, Trending)
    IN  [k \in 1..Len(picked) |->
            [trending_score |-> double_item_score(feedback_data, picked[k].id)]
                @@ picked[k]]

\* get_trending_items, lines 240-249, for one outcome `sorted_ids` of the sort;
\* item['trending_score'] = ... replaces a trending_score the stored item has
get_trending_items(feedback_data, items_data, limit, sorted_ids) ==
    LET trending_item_ids == Slice(sorted_ids, limit)
        Trending(item) == InList(item.id, trending_item_ids)
        picked == SelectSeq(items_data, Trending)
    IN  [k \in 1..Len(picked) |->
            [trending_score |-> double_item_score(feedback_data, picked[k].id)]
                @@ picked[k]]

----------------------------------------------------------------------------
(* popularity_score = min(100, max(0, (total_importance / len) * 20)) and   *)
(* its round(..., 1) are computed in doubles too: for the events like x 6,  *)
(* dislike, save the sum is 6.1000000000000005, the quotient by 8 times 20  *)
(* is 15.250000000000002 and rounds to 15.3, where 6.1 / 8 * 20 = 15.25     *)
(* would round to 15.2.  A positive double is held here as m * 2^e, m an    *)
(* integer of exactly 53 bits in three limbs.                               *)

\* a shifted right by k bits, 0 <= k <= 27
WideShr(a, k) ==
    LET g == 2 ^ k
        up == Limb \div g
    IN  [hi |-> a.hi \div g,
         mid |-> (a.mid \div g) + ((a.hi % g) * up),
         lo |-> (a.lo \div g) + ((a.mid % g) * up)]

\* a shifted left by k bits, 0 <= k <= 27
WideShl(a, k) ==
    LET g == 2 ^ k
        up == Limb \div g
    IN  [hi |-> (a.hi * g) + (a.mid \div up),
         mid |-> ((a.mid % up) * g) + (a.lo \div up),
         lo |-> (a.lo % up) * g]

\* a * 2^k, the bits shifted out to the right being dropped
RECURSIVE WideShift(_, _)
WideShift(a, k) ==
    IF k > 27 THEN WideShift(WideShl(a, 27), k - 27)
    ELSE IF k >= 0 THEN WideShl(a, k)
    ELSE IF k < -27 THEN WideShift(WideShr(a, 27), k + 27)
    ELSE WideShr(a, 0 - k)

\* the double nearest to w * 2^e, for w of at most 80 bits
FloatOf(w, e) ==
    LET r == WideRound(w)
        k == 53 - WideBitLength(r)
    IN  IF WideBitLength(w) = 0 THEN [m |-> w, e |-> 0]
        ELSE [m |-> WideShift(r, k), e |-> e - k]

\* (r * 2^27 + limb) divided by n, for r < n < 2^22: quotient and remainder, taken
\* nine bits at a time
DivLimb(r, limb, n) ==
    LET t2 == (r * 512) + (limb \div 262144)
        t1 == ((t2 % n) * 512) + ((limb \div 512) % 512)
        t0 == ((t1 % n) * 512) + (limb % 512)
    IN  [q |-> ((((t2 \div n) * 512) + (t1 \div n)) * 512) + (t0 \div n),
         r |-> t0 % n]

\* float / int: the quotient of x by the count n, rounded once.  x.m * 2^27 is
\* divided; a remainder makes the quotient odd, which keeps it off the halfway point
FloatDiv(x, n) ==
    LET d2 == DivLimb(0, x.m.mid, n)
        d1 == DivLimb(d2.r, x.m.lo, n)
        d0 == DivLimb(d1.r, 0, n)
        sticky == IF d0.r # 0 /\ d0.q % 2 = 0 THEN 1 ELSE 0
    IN  FloatOf([hi |-> d2.q, mid |-> d1.q, lo |-> d0.q + sticky], x.e - 27)

\* float * int for a small int, rounded once
FloatTimes(x, k) == FloatOf(WideTimes(k, x.m), x.e)

\* round(x, 1) of a double 0 <= x < 2^20, counted in tenths: the multiple of 0.1
\* nearest to the double, the even one when it lies halfway
FloatTenths(x) ==
    LET w == WideTimes(10, x.m)
        s == 0 - x.e
        whole == WideShift(w, 0 - s).lo
        halfway == WideShift([hi |-> 0, mid |-> 0, lo |-> 2 * whole + 1], s)
        twice == WideAdd(w, w)
    IN  IF WideBitLength(w) < s THEN 0
        ELSE IF WideLess(halfway, twice) THEN whole + 1
        ELSE IF WideLess(twice, halfway) THEN whole
        ELSE IF whole % 2 = 0 THEN whole ELSE whole + 1

\* get_item_feedback_summary, line 175 and 180: round((|total| / n) * 20, 1) in
\* tenths, for the sum `total` of the importances as get_item_feedback_summary adds
\* them up
ScaledMeanTenths(total, n) ==
    LET sum == FloatOf([hi |-> total.hi \div Limb, mid |-> total.hi % Limb,
                        lo |-> total.lo], -54)
    IN  FloatTenths(FloatTimes(FloatDiv(sum, n), 20))

\* get_item_feedback_summary that scores the total importance, not the mean
get_item_feedback_summary_total(feedback_data, item_id) ==
    LET OfItem(f) == f.item_id = item_id
        item_feedback == SelectSeq(feedback_data, OfItem)
        total_importance == double_item_score(feedback_data, item_id)
        n == Len(item_feedback)
    IN  IF item_feedback = <<>>
        THEN [total_feedback |-> 0, feedback_breakdown |-> <<>>, popularity_score |-> 0]
        ELSE [total_feedback |-> n,
              feedback_breakdown |-> Breakdown(item_feedback),
              popularity_score |->
                  IF total_importance.neg THEN 0
                  ELSE Min(1000, ScaledMeanTenths(total_importance, 1))]

\* get_item_feedback_summary without the max(0, ...) and min(100, ...)
get_item_feedback_summary_unclamped(feedback_data, item_id) ==
    LET OfItem(f) == f.item_id = item_id
        item_feedback == SelectSeq(feedback_data, OfItem)
        total_importance == double_item_score(feedback_data, item_id)
        n == Len(item_feedback)
    IN  IF item_feedback = <<>>
        THEN [total_feedback |-> 0, feedback_breakdown |-> <<>>, popularity_score |-> 0]
        ELSE [total_feedback |-> n,
              feedback_breakdown |-> Breakdown(item_feedback),
              popularity_score |->
                  IF total_importance.neg THEN 0 - ScaledMeanTenths(total_importance, n)
                  ELSE ScaledMeanTenths(total_importance, n)]

\* get_item_feedback_summary; popularity_score counts tenths.  total_importance is
\* the sum of the importances of the item's events, added in log order
get_item_feedback_summary(feedback_data, item_id) ==
    LET OfItem(f) == f.item_id = item_id
        item_feedback == SelectSeq(feedback_data, OfItem)
        total_importance == double_item_score(feedback_data, item_id)
        n == Len(item_feedback)
    IN  IF item_feedback = <<>>
        THEN [total_feedback |-> 0, feedback_breakdown |-> <<>>, popularity_score |-> 0]
        ELSE [total_feedback |-> n,
              feedback_breakdown |-> Breakdown(item_feedback),
              popularity_score |->
                  IF total_importance.neg THEN 0
                  ELSE Min(1000, ScaledMeanTenths(total_importance, n))]

\* the suggestion texts of get_recommendation_improvements
more_feedback_suggestions ==
    <<"Like or dislike more items to improve recommendations",
      "Save items you're interested in",
      "Try different styles to expand your preferences">>

explore_suggestions ==
    <<"Consider exploring different style categories",
      "Try items with different silhouettes">>

clear_suggestions ==
    <<"Great! Your preferences are clear",
      "Try saving items you love for future reference">>

\* get_recommendation_improvements that asks for more feedback up to 3 events
get_recommendation_improvements_upto3(feedback_data, user_id) ==
    LET user_feedback == get_user_feedback_summary(feedback_data, user_id)
        likes == Get(user_feedback.feedback_breakdown, "like", 0)
        dislikes == Get(user_feedback.feedback_breakdown, "dislike", 0)
    IN  IF user_feedback.total_feedback <= 3
        THEN [needs_more_feedback |-> TRUE, suggestions |-> more_feedback_suggestions]
        ELSE [needs_more_feedback |-> FALSE,
              suggestions |->
                  (IF dislikes > likes * 2 THEN explore_suggestions ELSE <<>>)
                      \o (IF likes > 0 /\ dislikes = 0 THEN clear_suggestions ELSE <<>>),
              feedback_quality |->
                  IF user_feedback.total_feedback >= 10 THEN "good" ELSE "improving"]

\* get_recommendation_improvements
get_recommendation_improvements(feedback_data, user_id) ==
    LET user_feedback == get_user_feedback_summary(feedback_data, user_id)
        likes == Get(user_feedback.feedback_breakdown, "like", 0)
        dislikes == Get(user_feedback.feedback_breakdown, "dislike", 0)
    IN  IF user_feedback.total_feedback < 3
        THEN [needs_more_feedback |-> TRUE, suggestions |-> more_feedback_suggestions]
        ELSE [needs_more_feedback |-> FALSE,
              suggestions |->
                  (IF dislikes > likes * 2 THEN explore_suggestions ELSE <<>>)
                      \o (IF likes > 0 /\ dislikes = 0 THEN clear_suggestions ELSE <<>>),
              feedback_quality |->
                  IF user_feedback.total_feedback >= 10 THEN "good" ELSE "improving"]

----------------------------------------------------------------------------
(* Inputs of the feedback manager. *)

MaxLog == 3          \* longest feedback log drawn for the summaries

\* the requests that the event loop of the server process holds at one time
Tasks == {"t1", "t2"}

NoProfile == [body_shape |-> <<>>, preferred_style |-> <<>>, recommended_colors |-> <<>>]
NoReply == [op |-> "none"]
NoRequest == [op |-> "none"]

\* the pool item with a given id
Item(id) == CHOOSE it \in ItemPool : it.id = id

\* (user, item, kind) of the events the logs are drawn from
EventPool ==
    { <<"u1", "i1", "like">>, <<"u1", "i1", "dislike">>, <<"u1", "i2", "save">>,
      <<"u2", "i2", "share">>, <<"u2", "i1", "view">>, <<"u2", "i3", "like">>,
      <<"u1", "i3", "view">>, <<"u2", "i2", "dislike">> }

\* the logs record_feedback can have built from at most n pool events
RECURSIVE LogsUpTo(_)
LogsUpTo(n) ==
    IF n = 0 THEN {<<>>}
    ELSE LET shorter == LogsUpTo(n - 1)
         IN  shorter \cup
             {Append(log, feedback_record(n, e[1], e[2], e[3])) : <<log, e>> \in
                 {<<log, e>> \in shorter \X EventPool : Len(log) = n - 1}}

\* catalogs for get_trending_items: none has i3, which does get feedback; in one the
\* stored i1 has a trending_score of its own (0.5)
TrendingCatalogs ==
    { <<>>, <<Item("i1"), Item("i2")>>, <<Item("i2"), Item("i4"), Item("i1")>>,
      <<[trending_score |-> DoubleOf[500]] @@ Item("i1"), Item("i2")>> }

SummaryUsers == {"u1", "u2", "u3"}

\* item ids asked of get_item_feedback_summary: i4 never gets feedback
SummaryItems == {"i1", "i2", "i3", "i4"}

----------------------------------------------------------------------------
(* The recommender as a state machine: the inputs are drawn, then          *)
(* recommend_outfits is applied to them.                                   *)

InitRecommend ==
    /\ user_profile \in Profiles
    /\ items_json \in CatalogsUpTo(MaxCatalog)
    /\ feedback_json = <<>>
    /\ users_json = <<>>
    /\ recommendations_json = <<>>
    /\ reply = NoReply
    /\ calls = <<>>
    /\ next_uuid = 1
    /\ pc = [t \in Tasks |-> "idle"]
    /\ req = [t \in Tasks |-> NoRequest]

RecommendOutfits(n) ==
    /\ reply' = [op |-> "recommend_outfits",
                 max_recommendations |-> n,
                 recommendations |-> recommend_outfits(user_profile, items_json, n, next_uuid)]
    /\ UNCHANGED <<user_profile, recommendations_json, items_json, feedback_json, users_json, calls,
                   next_uuid, pc, req>>

\* _filter_items_by_preferences applied to the catalog
FilterCatalog ==
    /\ reply' = [op |-> "filter_items_by_preferences",
                 pass |-> 1,
                 input |-> items_json,
                 items |-> filter_items_by_preferences(user_profile, items_json)]
    /\ UNCHANGED <<user_profile, recommendations_json, items_json, feedback_json, users_json, calls,
                   next_uuid, pc, req>>

\* _filter_items_by_preferences applied to what it returned for the catalog
FilterAgain ==
    /\ reply.op = "filter_items_by_preferences"
    /\ reply.pass = 1
    /\ reply' = [op |-> "filter_items_by_preferences",
                 pass |-> 2,
                 input |-> reply.items,
                 items |-> filter_items_by_preferences(user_profile, reply.items)]
    /\ UNCHANGED <<user_profile, recommendations_json, items_json, feedback_json, users_json, calls,
                   next_uuid, pc, req>>

NextRecommend ==
    \/ \E n \in Limits : RecommendOutfits(n)
    \/ FilterCatalog
    \/ FilterAgain

SpecRecommend == InitRecommend /\ [][NextRecommend]_vars

----------------------------------------------------------------------------
(* Outfits, as recommend_route builds them: the items are ranked, then     *)
(* create_outfit_combinations is applied to the ranking.                   *)

\* items of the five categories the scraper produces, of the category "unknown" its
\* fallback produces, and of two categories an outfit has no slot for
Garments ==
    { [id |-> "g1",
       title |-> <<"B","l","o","u","s","e">>,
       style |-> <<"v","i","n","t","a","g","e">>,
       category |-> <<"t","o","p">>,
       colors |-> <<>>,
       description |-> <<>>,
       likes |-> 100, saves |-> 0],
      [id |-> "g2",
       title |-> <<"G","r","a","p","h","i","c"," ","T","e","e">>,
       style |-> <<"c","a","s","u","a","l">>,
       category |-> <<"t","o","p">>,
       colors |-> <<>>,
       description |-> <<>>,
       likes |-> 2000, saves |-> 0],
      [id |-> "g3",
       title |-> <<"C","r","o","p","p","e","d"," ","S","w","e","a","t","e","r">>,
       style |-> <<>>,
       category |-> <<"t","o","p">>,
       colors |-> <<>>,
       description |-> <<>>,
       likes |-> 0, saves |-> 0],
      [id |-> "g4",
       title |-> <<"O","v","e","r","s","i","z","e","d"," ","H","o","o","d","i","e">>,
       style |-> <<"b","o","h","o">>,
       category |-> <<"t","o","p">>,
       colors |-> <<>>,
       description |-> <<>>,
       likes |-> 600, saves |-> 0],
      [id |-> "g5",
       title |-> <<"M","i","d","i"," ","S","k","i","r","t">>,
       style |-> <<"v","i","n","t","a","g","e">>,
       category |-> <<"b","o","t","t","o","m">>,
       colors |-> <<>>,
       description |-> <<>>,
       likes |-> 700, saves |-> 0],
      [id |-> "g6",
       title |-> <<"B","l","a","z","e","r">>,
       style |-> <<"f","o","r","m","a","l">>,
       category |-> <<"o","u","t","e","r","w","e","a","r">>,
       colors |-> <<>>,
       description |-> <<>>,
       likes |-> 0, saves |-> 0],
      [id |-> "g7",
       title |-> <<"B","o","o","t","s">>,
       style |-> <<"v","i","n","t","a","g","e">>,
       category |-> <<"s","h","o","e","s">>,
       colors |-> <<>>,
       description |-> <<>>,
       likes |-> 0, saves |-> 0],
      [id |-> "g8",
       title |-> <<"H","e","e","l","s">>,
       style |-> <<"f","o","r","m","a","l">>,
       category |-> <<"s","h","o","e","s">>,
       colors |-> <<>>,
       description |-> <<>>,
       likes |-> 1000, saves |-> 0],
      [id |-> "g9",
       title |-> <<"L","o","a","f","e","r","s">>,
       style |-> <<>>,
       category |-> <<"s","h","o","e","s">>,
       colors |-> <<>>,
       description |-> <<>>,
       likes |-> 200, saves |-> 0],
      [id |-> "g10",
       title |-> <<"S","c","a","r","f">>,
       style |-> <<"b","o","h","o">>,
       category |-> <<"a","c","c","e","s","s","o","r","i","e","s">>,
       colors |-> <<>>,
       description |-> <<>>,
       likes |-> 0, saves |-> 0],
      [id |-> "g11",
       title |-> <<"W","r","a","p"," ","D","r","e","s","s">>,
       style |-> <<"f","o","r","m","a","l">>,
       category |-> <<"d","r","e","s","s">>,
       colors |-> <<>>,
       description |-> <<>>,
       likes |-> 0, saves |-> 0],
      [id |-> "g12",
       title |-> <<"P","o","l","o">>,
       style |-> <<"c","a","s","u","a","l">>,
       category |-> <<"T","o","p">>,
       colors |-> <<>>,
       description |-> <<>>,
       likes |-> 0, saves |-> 0],
      [id |-> "g13",
       title |-> <<"S","u","n"," ","H","a","t">>,
       style |-> <<>>,
       category |-> <<"u","n","k","n","o","w","n">>,
       colors |-> <<>>,
       description |-> <<>>,
       likes |-> 300, saves |-> 0],
      [id |-> "g14",
       title |-> <<"R","e","t","r","o"," ","T","e","e">>,
       style |-> <<"c","a","s","u","a","l">>,
       category |-> <<"t","o","p">>,
       colors |-> <<>>,
       description |-> <<>>,
       likes |-> 0, saves |-> 0],
      [id |-> "g15",
       title |-> <<"J","e","a","n","s">>,
       style |-> <<"V","i","n","t","a","g","e">>,
       category |-> <<"b","o","t","t","o","m">>,
       colors |-> <<>>,
       description |-> <<>>,
       likes |-> 0, saves |-> 0] }

Garment(id) == CHOOSE g \in Garments : g.id = id

\* catalogs for the outfits: none, items without a slot only, one item of each
\* category, four tops, three pairs of shoes, two items no style preference matches,
\* two items whose styles differ in case only, five items of five styles
OutfitCatalogs ==
    { <<>>,
      <<Garment("g1"), Garment("g15")>>,
      <<Garment("g2"), Garment("g5"), Garment("g6"), Garment("g9"), Garment("g10")>>,
      <<Garment("g14"), Garment("g8")>>,
      <<Garment("g11"), Garment("g13")>>,
      <<Garment("g12")>>,
      <<Garment("g1"), Garment("g5")>>,
      <<Garment("g1"), Garment("g5"), Garment("g6"), Garment("g7"), Garment("g10"),
        Garment("g11")>>,
      <<Garment("g1"), Garment("g2"), Garment("g3"), Garment("g4"), Garment("g5"),
        Garment("g7")>>,
      <<Garment("g7"), Garment("g8"), Garment("g9"), Garment("g2"), Garment("g10")>> }

OutfitProfiles ==
    { NoProfile,
      [body_shape |-> <<"H","o","u","r","g","l","a","s","s">>,
       preferred_style |-> <<>>, recommended_colors |-> <<>>],
      [body_shape |-> <<"p","e","a","r">>,
       preferred_style |-> <<"v","i","n","t","a","g","e">>, recommended_colors |-> <<>>] }

\* max_recommendations of recommend_route: its default, and small ones
OutfitLimits == {0, 1, 4, 10}

InitOutfits ==
    /\ user_profile \in OutfitProfiles
    /\ items_json \in OutfitCatalogs
    /\ feedback_json = <<>>
    /\ users_json = <<>>
    /\ recommendations_json = <<>>
    /\ reply = NoReply
    /\ calls = <<>>
    /\ next_uuid = 1
    /\ pc = [t \in Tasks |-> "idle"]
    /\ req = [t \in Tasks |-> NoRequest]

\* create_outfit_combinations applied to the recommendations just computed
CreateOutfitCombinations ==
    /\ reply.op = "recommend_outfits"
    /\ LET recommendations == reply.recommendations
           n == OutfitCount(recommendations)
       IN  \E picks \in [1..n -> Picks(Candidates(recommendations))] :
               reply' = [op |-> "create_outfit_combinations",
                         recommendations |-> recommendations,
                         outfits |-> create_outfit_combinations(recommendations, picks,
                                                                next_uuid)]
    /\ UNCHANGED <<user_profile, recommendations_json, items_json, feedback_json, users_json, calls,
                   next_uuid, pc, req>>

\* a list read from its end
Reverse(xs) == [k \in 1..Len(xs) |-> xs[Len(xs) + 1 - k]]

\* the module function create_outfit_combinations, lines 334-337, called with the
\* scored items in another order than recommend_outfits returned them
CreateOutfitCombinationsReordered ==
    /\ reply.op = "recommend_outfits"
    /\ Reverse(reply.recommendations) # reply.recommendations
    /\ LET recommendations == Reverse(reply.recommendations)
           n == OutfitCount(recommendations)
       IN  \E picks \in [1..n -> Picks(Candidates(recommendations))] :
               reply' = [op |-> "create_outfit_combinations",
                         recommendations |-> recommendations,
                         outfits |-> create_outfit_combinations(recommendations, picks,
                                                                next_uuid)]
    /\ UNCHANGED <<user_profile, recommendations_json, items_json, feedback_json, users_json, calls,
                   next_uuid, pc, req>>

NextOutfits ==
    \/ \E n \in OutfitLimits : RecommendOutfits(n)
    \/ CreateOutfitCombinations
    \/ CreateOutfitCombinationsReordered

SpecOutfits == InitOutfits /\ [][NextOutfits]_vars

----------------------------------------------------------------------------
(* The read side of the feedback manager: a log and a catalog are drawn,   *)
(* then the summaries are computed from them.                              *)

\* the log is one of up to MaxLog pool events, or a like and seven views of i1, whose
\* mean importance times 20 lies halfway between two tenths (3.1 / 8 * 20 = 7.75)
InitAggregate ==
    /\ user_profile = NoProfile
    /\ items_json \in TrendingCatalogs
    /\ feedback_json \in LogsUpTo(MaxLog)
                           \cup {[k \in 1..8 |->
                                     IF k = 1 THEN feedback_record(k, "u1", "i1", "like")
                                     ELSE feedback_record(k, "u2", "i1", "view")]}
    /\ users_json = <<>>
    /\ recommendations_json = <<>>
    /\ reply = NoReply
    /\ calls = <<>>
    /\ next_uuid = 1
    /\ pc = [t \in Tasks |-> "idle"]
    /\ req = [t \in Tasks |-> NoRequest]

GetUserFeedback(u) ==
    /\ reply' = [op |-> "get_user_feedback",
                 user_id |-> u,
                 summary |-> get_user_feedback_summary(feedback_json, u)]
    /\ UNCHANGED <<user_profile, recommendations_json, items_json, feedback_json, users_json, calls,
                   next_uuid, pc, req>>

GetTrendingItems(n) ==
    /\ \E sorted_ids \in SortedItemIds(feedback_json) :
          reply' = [op |-> "get_trending_items",
                    limit |-> n,
                    items |-> get_trending_items(feedback_json, items_json, n, sorted_ids)]
    /\ UNCHANGED <<user_profile, recommendations_json, items_json, feedback_json, users_json, calls,
                   next_uuid, pc, req>>

GetItemFeedback(i) ==
    /\ reply' = [op |-> "get_item_feedback_summary",
                 item_id |-> i,
                 summary |-> get_item_feedback_summary(feedback_json, i)]
    /\ UNCHANGED <<user_profile, recommendations_json, items_json, feedback_json, users_json, calls,
                   next_uuid, pc, req>>

NextAggregate ==
    \/ \E u \in SummaryUsers : GetUserFeedback(u)
    \/ \E n \in Limits : GetTrendingItems(n)
    \/ \E i \in SummaryItems : GetItemFeedback(i)

SpecAggregate == InitAggregate /\ [][NextAggregate]_vars

----------------------------------------------------------------------------
(* Trending again: get_trending_items is called several times over the     *)
(* same feedback.json and items.json.  The call works on what load_json    *)
(* returns, objects of its own; a file changes only where save_json is     *)
(* called for it.  `calls` keeps the limits of the calls made.             *)

MaxTrendingCalls == 2   \* get_trending_items calls in one behaviour

\* the limits of the calls: one that cuts, and the one of trending_route
TrendingLimits == {1, 10}

\* get_trending_items, lines 218-249, with the objects it works on: feedback_data and
\* items_data are what load_json returned; `item["trending_score"] = ...` writes into
\* the dicts of items_data, which are the dicts returned; save_json is not called
get_trending_items_call(feedback_file, items_file, limit, sorted_ids) ==
    LET feedback_data == feedback_file
        items_data == items_file
        trending_item_ids == Slice(sorted_ids, limit)
        marked == [k \in 1..Len(items_data) |->
                      IF InList(items_data[k].id, trending_item_ids)
                      THEN [trending_score |-> double_item_score(feedback_data, items_data[k].id)]
                               @@ items_data[k]
                      ELSE items_data[k]]
        Trending(item) == InList(item.id, trending_item_ids)
    IN  [returned |-> SelectSeq(marked, Trending),
         items_data |-> marked,
         saved |-> <<>>]

\* the file after the save_json calls of a call: the data of the last one for this
\* filename, what the file held when there is none
FileAfter(existing, filename, saved) ==
    LET writes == {k \in 1..Len(saved) : saved[k].filename = filename}
    IN  IF writes = {} THEN existing
        ELSE saved[CHOOSE k \in writes : \A j \in writes : j <= k].data

\* get_trending_items(n) once more
GetTrendingItemsAgain(n) ==
    /\ Len(calls) < MaxTrendingCalls
    /\ \E sorted_ids \in SortedItemIds(feedback_json) :
          \E call \in {get_trending_items_call(feedback_json, items_json, n, sorted_ids)} :
              /\ reply' = [op |-> "get_trending_items", limit |-> n, items |-> call.returned]
              /\ feedback_json' = FileAfter(feedback_json, "feedback.json", call.saved)
              /\ items_json' = FileAfter(items_json, "items.json", call.saved)
    /\ calls' = Append(calls, [op |-> "get_trending_items", limit |-> n])
    /\ UNCHANGED <<user_profile, recommendations_json, users_json, next_uuid, pc, req>>

NextTrendingAgain == \E n \in TrendingLimits : GetTrendingItemsAgain(n)

SpecTrendingAgain == InitAggregate /\ [][NextTrendingAgain]_vars

----------------------------------------------------------------------------
(* get_recommendation_improvements over longer logs: u1 has liked, disliked *)
(* and viewed i1 some number of times, u2 has liked i2 some number of      *)
(* times, oldest event first or newest event first.                        *)

MaxHistory == 10     \* longest feedback log drawn for the improvement suggestions

\* the log of `likes` likes, `dislikes` dislikes and `views` views of u1 and
\* `others` likes of u2, in this order or in the opposite order
HistoryLog(likes, dislikes, views, others, newest_first) ==
    LET n == likes + dislikes + views + others
        At(k) == IF newest_first THEN n + 1 - k ELSE k
        EventAt(k, j) ==
            IF j <= likes THEN feedback_record(k, "u1", "i1", "like")
            ELSE IF j <= likes + dislikes THEN feedback_record(k, "u1", "i1", "dislike")
            ELSE IF j <= likes + dislikes + views THEN feedback_record(k, "u1", "i1", "view")
            ELSE feedback_record(k, "u2", "i2", "like")
    IN  [k \in 1..n |-> EventAt(k, At(k))]

HistoryLogs ==
    {HistoryLog(c[1], c[2], c[3], c[4], c[5]) :
        c \in {c \in (0..MaxHistory) \X (0..MaxHistory) \X (0..MaxHistory)
                         \X (0..MaxHistory) \X BOOLEAN :
                   c[1] + c[2] + c[3] + c[4] <= MaxHistory}}

InitImprove ==
    /\ user_profile = NoProfile
    /\ items_json = <<>>
    /\ feedback_json \in HistoryLogs
    /\ users_json = <<>>
    /\ recommendations_json = <<>>
    /\ reply = NoReply
    /\ calls = <<>>
    /\ next_uuid = 1
    /\ pc = [t \in Tasks |-> "idle"]
    /\ req = [t \in Tasks |-> NoRequest]

GetRecommendationImprovements(u) ==
    /\ reply' = [op |-> "get_recommendation_improvements",
                 user_id |-> u,
                 improvements |-> get_recommendation_improvements(feedback_json, u)]
    /\ UNCHANGED <<user_profile, recommendations_json, items_json, feedback_json, users_json, calls,
                   next_uuid, pc, req>>

NextImprove == \E u \in SummaryUsers : GetRecommendationImprovements(u)

SpecImprove == InitImprove /\ [][NextImprove]_vars

----------------------------------------------------------------------------
(* Recording feedback: the requests, and what a call leaves in the history. *)

MaxCalls == 2        \* record_feedback calls in one behaviour, one after the other
MaxRequests == 2     \* /feedback requests in one behaviour of requests in flight

CallerIds == {"u1", "u2", "u3"}
FeedbackItemIds == {"i1", "i2"}
KindsSent == {"like", "dislike", "save", "view", "love"}

\* users.json as process_query leaves it: u1 and u2 are stored without any
\* feedback_history, u3 is not stored
StoredUsers == <<[id |-> "u1"], [id |-> "u2"]>>

\* the feedback_data dicts sent: with a feedback_type, without one, and one without user
FeedbackPayloads ==
    [user_id : CallerIds, item_id : FeedbackItemIds, feedback_type : KindsSent]
        \cup [user_id : CallerIds, item_id : FeedbackItemIds]
        \cup {[user_id |-> "", item_id |-> "i1", feedback_type |-> "like"]}

\* record_feedback (the module function), line 284
SentKind(payload) == Get(payload, "feedback_type", "like")

\* record_feedback (the module function) line 287 and FeedbackManager.record_feedback
\* line 38: whether the call gets past both `raise ValueError`
Accepted(payload) ==
    /\ payload.user_id # ""
    /\ payload.item_id # ""
    /\ InList(SentKind(payload), feedback_types)

\* the record the accepted call builds, n being the fresh uuid
RecordOf(payload, n) ==
    feedback_record(n, payload.user_id, payload.item_id, SentKind(payload))

\* one entry of the history `calls`
\*   outcome: "rejected" (ValueError), "append_failed" (append_json returned False),
\*            "recorded" (the event is in the log)
\*   users:   "saved", "save_failed", "no_user" (the user is not stored), "untouched"
CallEntry(payload, outcome, users) ==
    [payload |-> payload, outcome |-> outcome, users |-> users]

Raised(payload) ==
    [op |-> "record_feedback", raised |-> "ValueError", payload |-> payload]

Returned(payload, record) ==
    [op |-> "record_feedback", raised |-> "none", payload |-> payload, feedback |-> record]

----------------------------------------------------------------------------
(* Ranking again: recommend_outfits is called several times over the same  *)
(* profile and catalog, the clock advancing from call to call.             *)

MaxRankCalls == 2      \* recommend_outfits calls in one behaviour
MaxRankedCatalog == 2  \* longest catalog ranked again

\* the catalog is one of pool items, or the records that a call before (at clock
\* reading 0, for some profile) returned, which carry score fields already
InitRerank ==
    /\ user_profile \in Profiles
    /\ items_json \in CatalogsUpTo(MaxRankedCatalog)
                        \cup {recommend_outfits(p, <<Item("i1"), Item("i3")>>, 2, 0) :
                                 p \in Profiles}
    /\ feedback_json = <<>>
    /\ users_json = StoredUsers
    /\ recommendations_json = <<>>
    /\ reply = NoReply
    /\ calls = <<>>
    /\ next_uuid = 1
    /\ pc = [t \in Tasks |-> "idle"]
    /\ req = [t \in Tasks |-> NoRequest]

\* recommend_outfits with the objects it works on.  A dict is known by its address in
\* `dicts`, where the items of the caller stand first; a list holds addresses; the
\* variable filtered_items is bound to one of the lists.
RankFrame(user_profile_, available_items) ==
    [user_profile |-> user_profile_,
     dicts |-> available_items,
     lists |-> [available_items |-> [k \in 1..Len(available_items) |-> k],
                filtered |-> <<>>,
                scored |-> <<>>],
     filtered_items |-> "filtered"]

\* _filter_items_by_preferences, lines 58 and 64-83: the new list gets the items
\* (the same dicts, not copies) that match by style and by color
FilterItems(f) ==
    LET Matches(a) == StyleMatch(f.user_profile, f.dicts[a]) /\ ColorMatch(f.user_profile, f.dicts[a])
    IN  [f EXCEPT !.lists.filtered = SelectSeq(f.lists.available_items, Matches)]

\* recommend_outfits, lines 37-39: `filtered_items = available_items` binds the
\* variable to the list of the caller
FallBack(f) ==
    IF f.lists[f.filtered_items] = <<>>
    THEN [f EXCEPT !.filtered_items = "available_items"]
    ELSE f

\* ScoreItems that writes the scores into the dict of the item itself
ScoreItems_in_place(f, now) ==
    LET source == f.lists[f.filtered_items]
    IN  [f EXCEPT !.dicts = [a \in 1..Len(f.dicts) |->
                                IF InList(a, source)
                                THEN ScoredItem(f.user_profile, f.dicts[a], now)
                                ELSE f.dicts[a]],
                  !.lists.scored = source]

\* recommend_outfits, lines 42-49: for every item of filtered_items a new dict
\* {**item, **score_data, "recommended_at": ...} is appended to scored_items
ScoreItems(f, now) ==
    LET source == f.lists[f.filtered_items]
    IN  [f EXCEPT !.dicts = f.dicts \o [k \in 1..Len(source) |->
                                           ScoredItem(f.user_profile, f.dicts[source[k]], now)],
                  !.lists.scored = [k \in 1..Len(source) |-> Len(f.dicts) + k]]

\* recommend_outfits, line 52: scored_items.sort(...) puts the list scored_items
\* in order, in place
SortScored(f) ==
    LET keyed == [k \in 1..Len(f.lists.scored) |->
                     [address |-> f.lists.scored[k],
                      overall_score |-> Get(f.dicts[f.lists.scored[k]], "overall_score", 0)]]
    IN  CHOOSE g \in {[f EXCEPT !.lists.scored = [k \in 1..Len(sorted) |-> sorted[k].address]] :
                          sorted \in {SortByScore(keyed)}} : TRUE

\* recommend_outfits, line 54, and its caller: what the call returns, and the list,
\* the items and the profile that the caller passed, as the call leaves them
CallResult(f, max_recommendations) ==
    [returned |-> Slice([k \in 1..Len(f.lists.scored) |-> f.dicts[f.lists.scored[k]]],
                        max_recommendations),
     available_items |-> [k \in 1..Len(f.lists.available_items) |->
                             f.dicts[f.lists.available_items[k]]],
     user_profile |-> f.user_profile]

\* recommend_outfits, lines 19-54, statement by statement: each statement runs once,
\* on the frame that the statement before it left
recommend_outfits_call(user_profile_, available_items, max_recommendations, now) ==
    CHOOSE result \in
        {CallResult(sorted, max_recommendations) :
            sorted \in {SortScored(scored) :
                scored \in {ScoreItems(working, now) :
                    working \in {FallBack(filtered) :
                        filtered \in {FilterItems(entered) :
                            entered \in {RankFrame(user_profile_, available_items)}}}}}} : TRUE

\* recommend_outfits at the clock reading next_uuid: the reply is what the call
\* returns, the profile and the catalog are what the call leaves of the objects
\* passed to it; the function opens no file
RecommendOutfitsAt(n) ==
    /\ next_uuid <= MaxRankCalls
    /\ \E call \in {recommend_outfits_call(user_profile, items_json, n, next_uuid)} :
           /\ reply' = [op |-> "recommend_outfits",
                        max_recommendations |-> n,
                        recommendations |-> call.returned]
           /\ items_json' = call.available_items
           /\ user_profile' = call.user_profile
    /\ next_uuid' = next_uuid + 1
    /\ UNCHANGED <<recommendations_json, feedback_json, users_json, calls, pc, req>>

\* the limits of the calls: one that cuts, one that does not, a negative one
RankLimits == {1, 2, -1}

NextRerank == \E n \in RankLimits : RecommendOutfitsAt(n)

SpecRerank == InitRerank /\ [][NextRerank]_vars

----------------------------------------------------------------------------
(* record_feedback, one call after the other: a call runs from start to    *)
(* end before the next one starts.  save_json may fail and return False:   *)
(* when open(filepath, 'w') fails the file stays as it was, when the write *)
(* fails after it the file is left empty or with the start of the dump,    *)
(* and load_json returns its default, the empty list, for it.              *)
(* feedback_json and users_json hold what load_json returns.  log_write    *)
(* and users_write say how the write of feedback.json and of users.json    *)
(* ends.  The activity log is a document of its own and is left out.       *)

WriteOutcomes == {"written", "open_failed", "dump_failed"}

\* what load_json returns after save_json(filename, data) over a file that held
\* `existing`
save_json(existing, data, outcome) ==
    IF outcome = "written" THEN data
    ELSE IF outcome = "open_failed" THEN existing
    ELSE <<>>

InitFeedback ==
    /\ user_profile = NoProfile
    /\ items_json = <<Item("i1"), Item("i2")>>
    /\ feedback_json = <<>>
    /\ users_json = StoredUsers
    /\ recommendations_json = <<>>
    /\ reply = NoReply
    /\ calls = <<>>
    /\ next_uuid = 1
    /\ pc = [t \in Tasks |-> "idle"]
    /\ req = [t \in Tasks |-> NoRequest]

\* record_feedback raises ValueError
RejectFeedback(payload) ==
    /\ Len(calls) < MaxCalls
    /\ ~Accepted(payload)
    /\ reply' = Raised(payload)
    /\ calls' = Append(calls, CallEntry(payload, "rejected", "untouched"))
    /\ UNCHANGED <<user_profile, recommendations_json, items_json, feedback_json, users_json,
                   next_uuid, pc, req>>

\* FeedbackManager.record_feedback for a payload that raises nothing: the record is
\* built and appended to the log, the preferences of the user are updated when the
\* append succeeded, and the record is returned whatever the writes did
RecordFeedbackCall(payload, log_write, users_write) ==
    LET record == RecordOf(payload, next_uuid)
        known == FindUser(users_json, payload.user_id) # 0
    IN  /\ next_uuid' = next_uuid + 1
        /\ feedback_json' = save_json(feedback_json, append_json(feedback_json, record),
                                      log_write)
        /\ users_json' = IF log_write = "written" /\ known
                         THEN save_json(users_json,
                                  update_user_preferences(users_json, payload.user_id,
                                      payload.item_id, SentKind(payload)),
                                  users_write)
                         ELSE users_json
        /\ reply' = Returned(payload, record)
        /\ calls' = Append(calls,
               IF log_write # "written" THEN CallEntry(payload, "append_failed", "untouched")
               ELSE IF ~known THEN CallEntry(payload, "recorded", "no_user")
               ELSE IF users_write # "written"
               THEN CallEntry(payload, "recorded", "save_failed")
               ELSE CallEntry(payload, "recorded", "saved"))

\* record_feedback returns the feedback record
RecordFeedback(payload, log_write, users_write) ==
    /\ Len(calls) < MaxCalls
    /\ Accepted(payload)
    /\ RecordFeedbackCall(payload, log_write, users_write)
    /\ UNCHANGED <<user_profile, recommendations_json, items_json, pc, req>>

NextFeedback ==
    \/ \E payload \in FeedbackPayloads : RejectFeedback(payload)
    \/ \E payload \in FeedbackPayloads : \E log_write, users_write \in WriteOutcomes :
           RecordFeedback(payload, log_write, users_write)

SpecFeedback == InitFeedback /\ [][NextFeedback]_vars

----------------------------------------------------------------------------
(* One server process with several requests in flight.  uvicorn.run        *)
(* starts one process, whose event loop runs the routes of main.py as      *)
(* coroutines.  A request is in flight from its arrival, while its body is *)
(* read, until its route has run.  The /feedback route awaits nothing, so  *)
(* it makes its test of the payload and its record_feedback call, with all *)
(* its reads and writes of feedback.json and users.json, before the loop   *)
(* serves another request: the requests in flight are served one at a      *)
(* time, in any order.                                                     *)

ConcurrentPayloads ==
    [user_id : {"u1"}, item_id : FeedbackItemIds,
     feedback_type : {"like", "dislike", "save"}]
        \cup {[user_id |-> "u3", item_id |-> "i1", feedback_type |-> "like"],
              [user_id |-> "u1", item_id |-> "i1", feedback_type |-> "love"],
              [user_id |-> "u1", item_id |-> "i1"]}

InFlight == {t \in Tasks : pc[t] # "idle"}

\* the /feedback requests in flight
FeedbackInFlight == {t \in InFlight : req[t].op = "feedback"}

\* feedback_route, line 158
required_fields == <<"user_id", "item_id", "feedback_type">>

\* feedback_route, lines 159-161: the first required field that the payload lacks,
\* "" when it has them all
MissingField(payload) ==
    LET missing == {k \in 1..Len(required_fields) : required_fields[k] \notin DOMAIN payload}
    IN  IF missing = {} THEN ""
        ELSE required_fields[CHOOSE k \in missing : \A j \in missing : k <= j]

\* feedback_route, line 155: a request arrives with its payload and waits for the
\* event loop
ReceiveFeedback(t, payload) ==
    /\ pc[t] = "idle"
    /\ Len(calls) + Cardinality(FeedbackInFlight) < MaxRequests
    /\ req' = [req EXCEPT ![t] = [op |-> "feedback", payload |-> payload]]
    /\ pc' = [pc EXCEPT ![t] = "received"]
    /\ UNCHANGED <<user_profile, recommendations_json, items_json, feedback_json,
                   users_json, reply, calls, next_uuid>>

\* feedback_route, lines 158-161 and 176-178: the payload lacks a required field;
\* the HTTPException of status 400 is caught and raised again with status 500, and
\* record_feedback is not called
RefuseRequest(t) ==
    /\ pc[t] = "received"
    /\ req[t].op = "feedback"
    /\ MissingField(req[t].payload) # ""
    /\ reply' = [op |-> "feedback", status |-> "error", status_code |-> 500,
                 detail |-> <<"Error recording feedback: ", "400: ",
                              "Missing required field: ", MissingField(req[t].payload)>>]
    /\ calls' = Append(calls, CallEntry(req[t].payload, "refused", "untouched"))
    /\ pc' = [pc EXCEPT ![t] = "idle"]
    /\ req' = [req EXCEPT ![t] = NoRequest]
    /\ UNCHANGED <<user_profile, recommendations_json, items_json, feedback_json,
                   users_json, next_uuid>>

\* feedback_route, line 163, and record_feedback, lines 282-288 and 38-39: the
\* payload has the required fields and record_feedback raises ValueError
RejectRequest(t) ==
    /\ pc[t] = "received"
    /\ req[t].op = "feedback"
    /\ MissingField(req[t].payload) = ""
    /\ ~Accepted(req[t].payload)
    /\ reply' = Raised(req[t].payload)
    /\ calls' = Append(calls, CallEntry(req[t].payload, "rejected", "untouched"))
    /\ pc' = [pc EXCEPT ![t] = "idle"]
    /\ req' = [req EXCEPT ![t] = NoRequest]
    /\ UNCHANGED <<user_profile, recommendations_json, items_json, feedback_json,
                   users_json, next_uuid>>

\* feedback_route, line 163: the payload has the required fields and record_feedback
\* runs for it, from the record it builds to the last write
ServeFeedback(t, log_write, users_write) ==
    /\ pc[t] = "received"
    /\ req[t].op = "feedback"
    /\ MissingField(req[t].payload) = ""
    /\ Accepted(req[t].payload)
    /\ RecordFeedbackCall(req[t].payload, log_write, users_write)
    /\ pc' = [pc EXCEPT ![t] = "idle"]
    /\ req' = [req EXCEPT ![t] = NoRequest]
    /\ UNCHANGED <<user_profile, recommendations_json, items_json>>

NextConcurrent ==
    \E t \in Tasks :
        \/ \E payload \in ConcurrentPayloads : ReceiveFeedback(t, payload)
        \/ RefuseRequest(t)
        \/ RejectRequest(t)
        \/ \E log_write, users_write \in WriteOutcomes :
               ServeFeedback(t, log_write, users_write)

SpecConcurrent == InitFeedback /\ [][NextConcurrent]_vars

----------------------------------------------------------------------------
(* Reading while a /feedback request is in flight.  The routes             *)
(* /user/{user_id}/feedback and /trending belong to the same event loop    *)
(* and await nothing either: a read that is in flight together with a      *)
(* /feedback request is served before or after the whole record_feedback   *)
(* call, never inside it.  A read in flight keeps, for the properties, the *)
(* number of /feedback requests that had been answered when it arrived.    *)

Appender == "t1"
Reader == "t2"

\* get_user_feedback_route, line 249: a request for the summary of a user arrives
ReceiveUserFeedback(t, u) ==
    /\ pc[t] = "idle"
    /\ req' = [req EXCEPT ![t] =
                  [op |-> "get_user_feedback", user_id |-> u, arrived |-> Len(calls)]]
    /\ pc' = [pc EXCEPT ![t] = "received"]
    /\ UNCHANGED <<user_profile, recommendations_json, items_json, feedback_json,
                   users_json, reply, calls, next_uuid>>

\* trending_route, line 217: a request for the trending items arrives
ReceiveTrending(t) ==
    /\ pc[t] = "idle"
    /\ req' = [req EXCEPT ![t] = [op |-> "get_trending_items", arrived |-> Len(calls)]]
    /\ pc' = [pc EXCEPT ![t] = "received"]
    /\ UNCHANGED <<user_profile, recommendations_json, items_json, feedback_json,
                   users_json, reply, calls, next_uuid>>

\* get_user_feedback_route, line 252: get_user_feedback runs for the request in
\* flight, on feedback.json as it is
ReadUserFeedback(t) ==
    /\ pc[t] = "received"
    /\ req[t].op = "get_user_feedback"
    /\ reply' = [op |-> "get_user_feedback",
                 user_id |-> req[t].user_id,
                 summary |-> get_user_feedback_summary(feedback_json, req[t].user_id)]
    /\ pc' = [pc EXCEPT ![t] = "idle"]
    /\ req' = [req EXCEPT ![t] = NoRequest]
    /\ UNCHANGED <<user_profile, recommendations_json, items_json, feedback_json,
                   users_json, calls, next_uuid>>

\* trending_route, line 220: get_trending_items(10) runs for the request in flight,
\* on feedback.json and items.json as they are
ReadTrendingItems(t) ==
    /\ pc[t] = "received"
    /\ req[t].op = "get_trending_items"
    /\ \E sorted_ids \in SortedItemIds(feedback_json) :
          reply' = [op |-> "get_trending_items",
                    limit |-> 10,
                    items |-> get_trending_items(feedback_json, items_json, 10, sorted_ids)]
    /\ pc' = [pc EXCEPT ![t] = "idle"]
    /\ req' = [req EXCEPT ![t] = NoRequest]
    /\ UNCHANGED <<user_profile, recommendations_json, items_json, feedback_json,
                   users_json, calls, next_uuid>>

NextReadDuringAppend ==
    \/ \E payload \in ConcurrentPayloads : ReceiveFeedback(Appender, payload)
    \/ RefuseRequest(Appender)
    \/ RejectRequest(Appender)
    \/ \E log_write, users_write \in WriteOutcomes :
           ServeFeedback(Appender, log_write, users_write)
    \/ \E u \in {"u1", "u3"} : ReceiveUserFeedback(Reader, u)
    \/ ReceiveTrending(Reader)
    \/ ReadUserFeedback(Reader)
    \/ ReadTrendingItems(Reader)

SpecReadDuringAppend == InitFeedback /\ [][NextReadDuringAppend]_vars

----------------------------------------------------------------------------
(* QueryProcessor and GeminiAnalyzer: the user record a query stores.  The  *)
(* texts the recommender reads (body_shape, recommended_colors,             *)
(* preferred_style) are sequences of characters, the others are strings.    *)

\* _get_default_body_analysis, lines 72-109: style_defaults
style_defaults ==
    <<"v","i","n","t","a","g","e">> :>
        [body_shape |-> <<"h","o","u","r","g","l","a","s","s">>,
         height_category |-> "average",
         features_to_emphasize |-> <<"waist", "curves">>,
         features_to_minimize |-> <<>>,
         recommended_silhouettes |-> <<"fitted", "wrap", "belted", "a-line">>,
         recommended_colors |-> <<<<"b","l","a","c","k">>, <<"n","a","v","y">>, <<"b","u","r","g","u","n","d","y">>, <<"e","m","e","r","a","l","d">>, <<"c","r","e","a","m">>>>,
         confidence_score |-> 60] @@
    <<"s","t","r","e","e","t","w","e","a","r">> :>
        [body_shape |-> <<"r","e","c","t","a","n","g","l","e">>,
         height_category |-> "average",
         features_to_emphasize |-> <<"shoulders", "legs">>,
         features_to_minimize |-> <<>>,
         recommended_silhouettes |-> <<"oversized", "relaxed", "structured">>,
         recommended_colors |-> <<<<"b","l","a","c","k">>, <<"w","h","i","t","e">>, <<"g","r","a","y">>, <<"n","a","v","y">>, <<"o","l","i","v","e">>>>,
         confidence_score |-> 60] @@
    <<"f","o","r","m","a","l">> :>
        [body_shape |-> <<"h","o","u","r","g","l","a","s","s">>,
         height_category |-> "average",
         features_to_emphasize |-> <<"waist", "shoulders">>,
         features_to_minimize |-> <<>>,
         recommended_silhouettes |-> <<"fitted", "structured", "tailored">>,
         recommended_colors |-> <<<<"b","l","a","c","k">>, <<"n","a","v","y">>, <<"g","r","a","y">>, <<"w","h","i","t","e">>, <<"b","u","r","g","u","n","d","y">>>>,
         confidence_score |-> 60] @@
    <<"c","a","s","u","a","l">> :>
        [body_shape |-> <<"r","e","c","t","a","n","g","l","e">>,
         height_category |-> "average",
         features_to_emphasize |-> <<"comfort", "versatility">>,
         features_to_minimize |-> <<>>,
         recommended_silhouettes |-> <<"relaxed", "comfortable", "easy">>,
         recommended_colors |-> <<<<"b","l","u","e">>, <<"w","h","i","t","e">>, <<"g","r","a","y">>, <<"b","e","i","g","e">>, <<"b","l","a","c","k">>>>,
         confidence_score |-> 60]

\* _get_default_body_analysis: the defaults of the first key contained in the
\* lower-cased style, or the fallback of lines 118-126
get_default_body_analysis(style) ==
    LET style_lower == Lower(style)
        \* the keys in the order of the dict
        style_default_keys ==
            << <<"v","i","n","t","a","g","e">>, <<"s","t","r","e","e","t","w","e","a","r">>, <<"f","o","r","m","a","l">>, <<"c","a","s","u","a","l">> >>
        hits == {k \in 1..Len(style_default_keys) :
                    IsSubstr(style_default_keys[k], style_lower)}
    IN  IF hits # {}
        THEN style_defaults[style_default_keys[CHOOSE k \in hits : \A j \in hits : k <= j]]
        ELSE [body_shape |-> <<"h","o","u","r","g","l","a","s","s">>,
              height_category |-> "average",
              features_to_emphasize |-> <<"waist">>,
              features_to_minimize |-> <<>>,
              recommended_silhouettes |-> <<"fitted", "comfortable">>,
              recommended_colors |-> <<<<"b","l","a","c","k">>, <<"n","a","v","y">>, <<"w","h","i","t","e">>>>,
              confidence_score |-> 50]

\* GeminiAnalyzer._mock_body_shape_analysis: the same analysis for every style
mock_body_shape_analysis(user_style) ==
    [body_shape |-> <<"h","o","u","r","g","l","a","s","s">>,
     height_category |-> "average",
     features_to_emphasize |-> <<"waist", "curves">>,
     features_to_minimize |-> <<>>,
     recommended_silhouettes |-> <<"fitted", "wrap", "belted", "a-line">>,
     recommended_colors |-> <<<<"b","l","a","c","k">>, <<"n","a","v","y">>, <<"b","u","r","g","u","n","d","y">>, <<"e","m","e","r","a","l","d">>>>,
     confidence_score |-> 85]

\* GeminiAnalyzer._extract_body_shape_from_text
extract_body_shape_from_text(text) ==
    [body_shape |-> <<"h","o","u","r","g","l","a","s","s">>,
     height_category |-> "average",
     features_to_emphasize |-> <<"waist">>,
     features_to_minimize |-> <<>>,
     recommended_silhouettes |-> <<"fitted", "wrap", "belted">>,
     recommended_colors |-> <<<<"b","l","a","c","k">>, <<"n","a","v","y">>, <<"b","u","r","g","u","n","d","y">>>>,
     confidence_score |-> 75]

\* what the Gemini service does with one request: there is no API key ("no_api_key"),
\* the call raises or the status is not 200 ("no_response"), the answer is a text that
\* is not JSON ("text"), a text that begins like JSON and is none ("broken_json"), or
\* the analysis asked for
GeminiAnalysis ==
    [body_shape |-> <<"p","e","a","r">>,
     height_category |-> "average",
     features_to_emphasize |-> <<"shoulders">>,
     features_to_minimize |-> <<>>,
     recommended_silhouettes |-> <<"a-line">>,
     recommended_colors |-> <<<<"r","e","d">>>>,
     confidence_score |-> 90]

GeminiOutcomes == {"no_api_key", "no_response", "text", "broken_json", "analysis"}

\* GeminiAnalyzer.analyze_body_shape: it returns an analysis whatever the service does
analyze_body_shape(outcome, user_style) ==
    IF outcome = "no_api_key" THEN mock_body_shape_analysis(user_style)
    ELSE IF outcome = "no_response" THEN mock_body_shape_analysis(user_style)
    ELSE IF outcome = "text" THEN extract_body_shape_from_text("text")
    ELSE IF outcome = "broken_json" THEN mock_body_shape_analysis("unknown")
    ELSE GeminiAnalysis

\* QueryProcessor.process_query: the user record.  `image` is what came as
\* image_data, one of Uploads: "none" is None, "empty" an upload of no bytes, every
\* other one an upload that has bytes; `outcome` is what the Gemini service does
\* when it is asked.  image_uploaded tests
\* `is not None` (line 41), the analysis is asked for when image_data is true
\* (line 46), which an upload of no bytes is not.  analyze_user_image never raises,
\* so line 54 is not reached.
process_query(style, image, outcome, user_id, now) ==
    [id |-> user_id,
     preferred_style |-> style,
     created_at |-> now,
     body_shape_analysis |-> IF image \notin {"none", "empty"}
                             THEN analyze_body_shape(outcome, style)
                             ELSE get_default_body_analysis(style),
     image_uploaded |-> (image # "none"),
     query_processed |-> TRUE]

\* the characters for which str.isalnum holds, among those of the texts here
AlnumChars ==
    {"a","b","c","d","e","f","g","h","i","j","k","l","m","n","o","p","q","r","s","t",
     "u","v","w","x","y","z","A","B","C","D","E","F","G","H","I","J","K","L","M","N",
     "O","P","Q","R","S","T","U","V","W","X","Y","Z","0","1","2","3","4","5","6","7",
     "8","9"}

\* QueryProcessor.validate_style_input: the error message, "" for a style that
\* passes
validate_style_input(style) ==
    LET rest == {k \in 1..Len(style) : style[k] \notin {" ", "-", "&"}}
    IN  IF \A k \in 1..Len(style) : style[k] = " "
        THEN "Style preference is required"
        ELSE IF Len(style) < 2 THEN "Style preference must be at least 2 characters"
        ELSE IF Len(style) > 100
        THEN "Style preference must be less than 100 characters"
        ELSE IF rest = {} \/ \E k \in rest : style[k] \notin AlnumChars
        THEN "Style preference contains invalid characters"
        ELSE ""

\* QueryProcessor.validate_image for an upload that has bytes: its size, the
\* extension of its file name and its first bytes are tested in this order
validate_image(image) ==
    IF image = "too_large" THEN "Image too large. Maximum size is 10MB"
    ELSE IF image = "bad_format"
    THEN "Unsupported image format. Supported: jpg, jpeg, png, webp"
    ELSE IF image = "not_image" THEN "Invalid image data"
    ELSE ""

\* validate_user_input: the error message, "" for an input that passes.  The upload
\* is validated only when it has bytes.
validate_user_input(style, image) ==
    IF validate_style_input(style) # "" THEN validate_style_input(style)
    ELSE IF image \notin {"none", "empty"} THEN validate_image(image)
    ELSE ""

\* the keys recommend_outfits reads from the record recommend_route hands over, each
\* by dict.get(key, default)
ProfileRead(user) ==
    LET GetField(key, default) == IF key \in DOMAIN user THEN user[key] ELSE default
    IN  [body_shape |-> GetField("body_shape", <<>>),
         preferred_style |-> GetField("preferred_style", <<>>),
         recommended_colors |-> GetField("recommended_colors", <<>>)]

----------------------------------------------------------------------------
(* The scraper: scrape_pinterest returns the mock items that              *)
(* PinterestScraper._generate_mock_items makes up.  What the random module *)
(* returns for an item is an input here: `draws` holds, item by item, the  *)
(* template chosen, the colors sampled and the numbers of likes and saves. *)
(* Of an item the fields are kept that the recommender and the feedback    *)
(* aggregation read.                                                       *)

\* str.upper() of one character
UpperOf(c) ==
    IF \E u \in DOMAIN UpperToLower : UpperToLower[u] = c
    THEN CHOOSE u \in DOMAIN UpperToLower : UpperToLower[u] = c
    ELSE c

IsLetter(c) == c \in DOMAIN UpperToLower \/ \E u \in DOMAIN UpperToLower : UpperToLower[u] = c

\* str.title(): a letter that follows no letter is put in upper case, every other
\* letter in lower case
TitleCase(s) ==
    [k \in 1..Len(s) |->
        IF k = 1 \/ ~IsLetter(s[k - 1]) THEN UpperOf(s[k])
        ELSE IF s[k] \in DOMAIN UpperToLower THEN UpperToLower[s[k]] ELSE s[k]]

\* _generate_mock_items, lines 58-65, in the order of the dict
style_categories ==
    <<
      [style |-> <<"v","i","n","t","a","g","e">>,
       keywords |-> <<<<"v","i","n","t","a","g","e">>,
                      <<"r","e","t","r","o">>,
                      <<"c","l","a","s","s","i","c">>,
                      <<"t","i","m","e","l","e","s","s">>>>],
      [style |-> <<"s","t","r","e","e","t","w","e","a","r">>,
       keywords |-> <<<<"s","t","r","e","e","t">>,
                      <<"u","r","b","a","n">>,
                      <<"c","a","s","u","a","l">>,
                      <<"c","o","o","l">>>>],
      [style |-> <<"f","o","r","m","a","l">>,
       keywords |-> <<<<"e","l","e","g","a","n","t">>,
                      <<"s","o","p","h","i","s","t","i","c","a","t","e","d">>,
                      <<"p","r","o","f","e","s","s","i","o","n","a","l">>>>],
      [style |-> <<"c","a","s","u","a","l">>,
       keywords |-> <<<<"r","e","l","a","x","e","d">>,
                      <<"c","o","m","f","o","r","t","a","b","l","e">>,
                      <<"e","v","e","r","y","d","a","y">>>>],
      [style |-> <<"b","o","h","e","m","i","a","n">>,
       keywords |-> <<<<"b","o","h","o">>,
                      <<"f","r","e","e","-","s","p","i","r","i","t","e","d">>,
                      <<"a","r","t","i","s","t","i","c">>>>],
      [style |-> <<"m","i","n","i","m","a","l","i","s","t">>,
       keywords |-> <<<<"c","l","e","a","n">>,
                      <<"s","i","m","p","l","e">>,
                      <<"m","o","d","e","r","n">>>>] >>

\* _generate_mock_items, lines 68-72: the first style one of whose keywords is in
\* the keyword, "casual" when there is none
detected_style(keyword) ==
    LET hits == {k \in 1..Len(style_categories) :
                    \E j \in 1..Len(style_categories[k].keywords) :
                        IsSubstr(style_categories[k].keywords[j], Lower(keyword))}
    IN  IF hits = {} THEN <<"c","a","s","u","a","l">>
        ELSE style_categories[CHOOSE k \in hits : \A j \in hits : k <= j].style

\* _generate_mock_items, lines 75-111
item_templates ==
    <<
      [type |-> <<"t","o","p">>,
       templates |-> <<<<"V","i","n","t","a","g","e"," ","B","a","n","d"," ","T","-","S","h","i","r","t">>,
                       <<"O","v","e","r","s","i","z","e","d"," ","H","o","o","d","i","e">>,
                       <<"C","r","o","p","p","e","d"," ","S","w","e","a","t","e","r">>,
                       <<"B","u","t","t","o","n","-","U","p"," ","S","h","i","r","t">>,
                       <<"G","r","a","p","h","i","c"," ","T","e","e">>,
                       <<"B","l","o","u","s","e">>>>],
      [type |-> <<"b","o","t","t","o","m">>,
       templates |-> <<<<"H","i","g","h","-","W","a","i","s","t","e","d"," ","J","e","a","n","s">>,
                       <<"C","a","r","g","o"," ","P","a","n","t","s">>,
                       <<"M","i","d","i"," ","S","k","i","r","t">>,
                       <<"W","i","d","e","-","L","e","g"," ","T","r","o","u","s","e","r","s">>,
                       <<"S","h","o","r","t","s">>,
                       <<"P","e","n","c","i","l"," ","S","k","i","r","t">>>>],
      [type |-> <<"o","u","t","e","r","w","e","a","r">>,
       templates |-> <<<<"D","e","n","i","m"," ","J","a","c","k","e","t">>,
                       <<"L","e","a","t","h","e","r"," ","J","a","c","k","e","t">>,
                       <<"B","l","a","z","e","r">>,
                       <<"C","a","r","d","i","g","a","n">>,
                       <<"B","o","m","b","e","r"," ","J","a","c","k","e","t">>,
                       <<"T","r","e","n","c","h"," ","C","o","a","t">>>>],
      [type |-> <<"s","h","o","e","s">>,
       templates |-> <<<<"S","n","e","a","k","e","r","s">>,
                       <<"B","o","o","t","s">>,
                       <<"H","e","e","l","s">>,
                       <<"S","a","n","d","a","l","s">>,
                       <<"L","o","a","f","e","r","s">>,
                       <<"A","n","k","l","e"," ","B","o","o","t","s">>>>],
      [type |-> <<"a","c","c","e","s","s","o","r","i","e","s">>,
       templates |-> <<<<"C","r","o","s","s","b","o","d","y"," ","B","a","g">>,
                       <<"S","t","a","t","e","m","e","n","t"," ","N","e","c","k","l","a","c","e">>,
                       <<"S","u","n","g","l","a","s","s","e","s">>,
                       <<"S","c","a","r","f">>,
                       <<"B","e","l","t">>,
                       <<"W","a","t","c","h">>>>] >>

\* the six colors random.sample takes two of (line 129)
mock_colors ==
    <<<<"b","l","a","c","k">>,
      <<"w","h","i","t","e">>,
      <<"n","a","v","y">>,
      <<"b","e","i","g","e">>,
      <<"g","r","a","y">>,
      <<"b","r","o","w","n">>>>

\* f"pinterest_{i+1}" (line 120), i + 1 being k
PinterestId(k) == "pinterest_" \o ToString(k)

\* _generate_mock_items, lines 113-137: the k-th item, for the draw that the random
\* module returned for it.  draw.type and draw.name are positions in item_templates,
\* draw.colors two positions in mock_colors, draw.likes lies in 10..1000 and
\* draw.saves in 5..500.  The tags end with keyword.split()[0] (line 135): for a
\* keyword of no word the index raises IndexError and no item is made.
mock_item(k, keyword, draw) ==
    LET style == detected_style(keyword)
        item_type_data == item_templates[draw.type]
        item_name == item_type_data.templates[draw.name]
    IN  IF Split(keyword) = <<>>
        THEN [raised |-> "IndexError", message |-> "list index out of range"]
        ELSE
        [id |-> PinterestId(k),
         title |-> item_name \o <<" ","-"," ">> \o TitleCase(style) \o <<" ","S","t","y","l","e">>,
         description |-> <<"P","e","r","f","e","c","t"," ">> \o style \o <<" ">> \o Lower(item_name)
                             \o <<" ","f","o","r"," ","y","o","u","r"," ","w","a","r","d","r","o","b","e">>,
         style |-> style,
         category |-> item_type_data.type,
         colors |-> <<mock_colors[draw.colors[1]], mock_colors[draw.colors[2]]>>,
         likes |-> draw.likes,
         saves |-> draw.saves,
         tags |-> <<style, item_type_data.type, Split(keyword)[1]>>]

\* _generate_mock_items, lines 114-137: the making of one of the items raises
ScrapeRaises(keyword, draws) ==
    \E k \in 1..Len(draws) : "raised" \in DOMAIN mock_item(k, keyword, draws[k])

\* scrape_pinterest(keyword, max_items): range(max_items) items, one per draw.
\* Nothing catches what the making of an item raises (lines 30-52, 199-214): the
\* first item that raises ends the call, and with no item to make nothing raises.
scrape_pinterest(keyword, draws) ==
    LET made == [k \in 1..Len(draws) |-> mock_item(k, keyword, draws[k])]
        failed == {k \in 1..Len(draws) : "raised" \in DOMAIN made[k]}
    IN  IF ScrapeRaises(keyword, draws)
        THEN made[CHOOSE k \in failed : \A j \in failed : k <= j]
        ELSE made

\* what the random module returns for one item, in the behaviours here: a blouse
\* in black and white that many liked, a pair of sneakers in navy and beige that
\* few did
MockDraws ==
    { [type |-> 1, name |-> 6, colors |-> <<1, 2>>, likes |-> 100, saves |-> 50],
      [type |-> 4, name |-> 1, colors |-> <<3, 4>>, likes |-> 10, saves |-> 5] }

\* scrape_items_route, line 88: payload.get("keyword", "vintage streetwear")
default_keyword == <<"v","i","n","t","a","g","e"," ","s","t","r","e","e","t","w","e","a","r">>


----------------------------------------------------------------------------
(* The /query, /scrape and /recommend routes of main.py in the one server  *)
(* process, with the requests of two clients in flight, one per client.    *)
(* query_user awaits the bytes of the upload and then runs without giving  *)
(* up the event loop: it validates, builds the user record, loads          *)
(* users.json, appends and saves.  scrape_items_route and recommend_route  *)
(* await nothing: the one saves the items the scraper returns as           *)
(* items.json, the other ranks the catalog for the last record of          *)
(* users.json and saves recommendations.json.  The requests in flight are  *)
(* served one at a time, in any order.  A save may fail as save_json       *)
(* fails; the routes go on whatever it returns.                            *)

MaxPipelineCalls == 4     \* requests served in one behaviour
MaxQueries == 2           \* queries served in one behaviour of queries only

QueryStyles ==
    { <<"v","i","n","t","a","g","e">>,
      <<"U","r","b","a","n"," ","S","t","r","e","e","t","w","e","a","r">>,
      <<"g","r","u","n","g","e">>,
      <<"g","r","u","n","g","e","!">>,
      <<"x">> }

\* what came with the query as image: nothing, an upload of no bytes, an image
\* ("bytes"), or bytes that validate_image rejects: more than 10 MB, a file name
\* with an extension that is not supported, bytes that start like no image
Uploads == {"none", "empty", "bytes", "too_large", "bad_format", "not_image"}

\* items.json as a /scrape request before left it: a blouse and a pair of sneakers
ScrapedBefore ==
    scrape_pinterest(default_keyword,
        <<[type |-> 1, name |-> 6, colors |-> <<1, 2>>, likes |-> 100, saves |-> 50],
          [type |-> 4, name |-> 1, colors |-> <<3, 4>>, likes |-> 10, saves |-> 5]>>)

\* items.json does not exist or holds what a /scrape request before saved
InitPipeline ==
    /\ user_profile = NoProfile
    /\ items_json \in { <<>>, ScrapedBefore }
    /\ feedback_json = <<>>
    /\ users_json = <<>>
    /\ recommendations_json = <<>>
    /\ reply = NoReply
    /\ calls = <<>>
    /\ next_uuid = 1
    /\ pc = [t \in Tasks |-> "idle"]
    /\ req = [t \in Tasks |-> NoRequest]

\* query_user, lines 45-51: a query arrives; the bytes of its upload are awaited
ReceiveQuery(t, style, image, outcome) ==
    /\ pc[t] = "idle"
    /\ Len(calls) + Cardinality(InFlight) < MaxPipelineCalls
    /\ req' = [req EXCEPT ![t] =
                  [op |-> "query", style |-> style, image |-> image, outcome |-> outcome]]
    /\ pc' = [pc EXCEPT ![t] = "received"]
    /\ UNCHANGED <<user_profile, recommendations_json, items_json, feedback_json,
                   users_json, reply, calls, next_uuid>>

\* the entry of a query in the history `calls`
\*   status: "error" (the input was rejected), "success"
\*   users:  "saved", "save_failed" (save_json returned False), "untouched"
QueryEntry(t, status, user_id, users) ==
    [op |-> "query", task |-> t, style |-> req[t].style, image |-> req[t].image,
     outcome |-> req[t].outcome, status |-> status, user_id |-> user_id, users |-> users]

\* query_user, lines 52-58 and 80-82: validate_user_input rejects the input; the
\* HTTPException of status 400 is caught and raised again with status 500, its
\* text, which is the status and the message, in the detail
RejectQuery(t) ==
    /\ pc[t] = "received"
    /\ req[t].op = "query"
    /\ validate_user_input(req[t].style, req[t].image) # ""
    /\ reply' = [op |-> "query", status |-> "error", status_code |-> 500,
                 detail |-> <<"Error processing query: ", "400: ",
                              validate_user_input(req[t].style, req[t].image)>>]
    /\ calls' = Append(calls, QueryEntry(t, "error", 0, "untouched"))
    /\ pc' = [pc EXCEPT ![t] = "idle"]
    /\ req' = [req EXCEPT ![t] = NoRequest]
    /\ UNCHANGED <<user_profile, recommendations_json, items_json, feedback_json,
                   users_json, next_uuid>>

\* query_user, lines 60-76: the record of the new user is built, users.json is
\* loaded and saved with the record at its end, and the record is returned
ServeQuery(t, users_write) ==
    /\ pc[t] = "received"
    /\ req[t].op = "query"
    /\ validate_user_input(req[t].style, req[t].image) = ""
    /\ LET user == process_query(req[t].style, req[t].image, req[t].outcome,
                                 next_uuid, next_uuid)
       IN  /\ users_json' = save_json(users_json, Append(users_json, user), users_write)
           /\ reply' = [op |-> "query", status |-> "success", user |-> user]
           /\ calls' = Append(calls,
                  QueryEntry(t, "success", user.id,
                             IF users_write = "written" THEN "saved" ELSE "save_failed"))
    /\ next_uuid' = next_uuid + 1
    /\ pc' = [pc EXCEPT ![t] = "idle"]
    /\ req' = [req EXCEPT ![t] = NoRequest]
    /\ UNCHANGED <<user_profile, recommendations_json, items_json, feedback_json>>

\* scrape_items_route, line 85: a request to scrape arrives
ReceiveScrape(t, payload) ==
    /\ pc[t] = "idle"
    /\ Len(calls) + Cardinality(InFlight) < MaxPipelineCalls
    /\ req' = [req EXCEPT ![t] = [op |-> "scrape", payload |-> payload]]
    /\ pc' = [pc EXCEPT ![t] = "received"]
    /\ UNCHANGED <<user_profile, recommendations_json, items_json, feedback_json,
                   users_json, reply, calls, next_uuid>>

\* scrape_items_route, lines 88-105: the items that scrape_pinterest returns for the
\* draws of the random module are saved as items.json and returned, whatever
\* save_json returns.  What scrape_pinterest raises is caught (lines 103-105) and
\* raised again as an HTTPException of status 500; items.json is then not written.
ServeScrape(t, draws, write) ==
    /\ pc[t] = "received"
    /\ req[t].op = "scrape"
    /\ Len(draws) = Max(0, Get(req[t].payload, "max_items", 20))
    /\ LET keyword == Get(req[t].payload, "keyword", default_keyword)
           items == scrape_pinterest(keyword, draws)
       IN  IF ScrapeRaises(keyword, draws)
           THEN /\ items_json' = items_json
                /\ reply' = [op |-> "scrape", status |-> "error", status_code |-> 500,
                             detail |-> <<"Error scraping items: ", items.message>>]
                /\ calls' = Append(calls,
                       [op |-> "scrape", task |-> t, status |-> "error"])
           ELSE /\ items_json' = save_json(items_json, items, write)
                /\ reply' = [op |-> "scrape", status |-> "success", count |-> Len(items),
                             items |-> items, keyword |-> keyword]
                /\ calls' = Append(calls,
                       [op |-> "scrape", task |-> t, status |-> "success",
                        count |-> Len(items),
                        items |-> IF write = "written" THEN "saved" ELSE "save_failed"])
    /\ pc' = [pc EXCEPT ![t] = "idle"]
    /\ req' = [req EXCEPT ![t] = NoRequest]
    /\ UNCHANGED <<user_profile, recommendations_json, feedback_json, users_json,
                   next_uuid>>

\* CurrentUser that takes the first record of users.json
CurrentUser_first(users) == users[1]

\* recommend_route, line 116: users[-1], the user the recommendation is for
CurrentUser(users) == users[Len(users)]

\* recommend_route, line 108: a recommendation is asked for
ReceiveRecommend(t, n) ==
    /\ pc[t] = "idle"
    /\ Len(calls) + Cardinality(InFlight) < MaxPipelineCalls
    /\ req' = [req EXCEPT ![t] = [op |-> "recommend", max_recommendations |-> n]]
    /\ pc' = [pc EXCEPT ![t] = "received"]
    /\ UNCHANGED <<user_profile, recommendations_json, items_json, feedback_json,
                   users_json, reply, calls, next_uuid>>

\* recommend_route raises: the HTTPException of status 400 is caught and raised
\* again with status 500 (lines 150-152), nothing is saved
RecommendRaises(t, detail) ==
    /\ reply' = [op |-> "recommend", status |-> "error", status_code |-> 500,
                 detail |-> <<"Error generating recommendations: ", "400: ", detail>>]
    /\ calls' = Append(calls, [op |-> "recommend", task |-> t, status |-> "error"])
    /\ pc' = [pc EXCEPT ![t] = "idle"]
    /\ req' = [req EXCEPT ![t] = NoRequest]
    /\ UNCHANGED <<user_profile, recommendations_json, items_json, feedback_json,
                   users_json, next_uuid>>

\* recommend_route, lines 112-114: users.json holds no user
RecommendNoUser(t) ==
    /\ pc[t] = "received"
    /\ req[t].op = "recommend"
    /\ users_json = <<>>
    /\ RecommendRaises(t, "No user data found. Please process a query first.")

\* recommend_route, lines 119-121: items.json holds no item
RecommendNoItems(t) ==
    /\ pc[t] = "received"
    /\ req[t].op = "recommend"
    /\ users_json # <<>>
    /\ items_json = <<>>
    /\ RecommendRaises(t, "No items found. Please scrape items first.")

\* recommend_route, lines 112-148: the catalog is ranked for the last user stored,
\* the outfits are put together, the recommendations are saved and returned
ServeRecommend(t, write) ==
    /\ pc[t] = "received"
    /\ req[t].op = "recommend"
    /\ users_json # <<>>
    /\ items_json # <<>>
    /\ LET user == CurrentUser(users_json)
           recommendations == recommend_outfits(ProfileRead(user), items_json,
                                                req[t].max_recommendations, next_uuid)
           n == OutfitCount(recommendations)
       IN  /\ \E picks \in [1..n -> Picks(Candidates(recommendations))] :
                  reply' = [op |-> "recommend", status |-> "success", user |-> user,
                            recommendations |-> recommendations,
                            outfits |-> create_outfit_combinations(recommendations, picks,
                                                                   next_uuid)]
           /\ recommendations_json' =
                  save_json(recommendations_json, recommendations, write)
           /\ calls' = Append(calls, [op |-> "recommend", task |-> t,
                                      status |-> "success", user_id |-> user.id])
    /\ pc' = [pc EXCEPT ![t] = "idle"]
    /\ req' = [req EXCEPT ![t] = NoRequest]
    /\ UNCHANGED <<user_profile, items_json, feedback_json, users_json, next_uuid>>

\* the queries of the pipeline: a style with an image that the Gemini service
\* analyses
PipelineQueries ==
    { [style |-> <<"v","i","n","t","a","g","e">>, image |-> "bytes", outcome |-> "analysis"] }

\* the payloads of the /scrape requests of the pipeline: one item for the default
\* keyword, and one item for a keyword of blanks, for which the scraper raises
PipelineScrapes == { [max_items |-> 1], [keyword |-> <<" ">>, max_items |-> 1] }

\* what the random module returns in the pipeline: the pair of sneakers
PipelineDraws == {d \in MockDraws : d.type = 4}

\* what a save of users.json and of recommendations.json does in the pipeline: it
\* writes the document, or its dump fails; the save of items.json writes it
PipelineWrites == {"written", "dump_failed"}

NextPipeline ==
    \E t \in Tasks :
        \/ \E q \in PipelineQueries : ReceiveQuery(t, q.style, q.image, q.outcome)
        \/ \E users_write \in PipelineWrites : ServeQuery(t, users_write)
        \/ \E payload \in PipelineScrapes : ReceiveScrape(t, payload)
        \/ \E draws \in [1..1 -> PipelineDraws] : ServeScrape(t, draws, "written")
        \/ ReceiveRecommend(t, 10)
        \/ RecommendNoUser(t)
        \/ RecommendNoItems(t)
        \/ \E write \in PipelineWrites : ServeRecommend(t, write)

SpecPipeline == InitPipeline /\ [][NextPipeline]_vars

\* query_user, lines 45-51, when queries only are served, one at a time
QueryRequest(style, image, outcome) ==
    /\ Len(calls) < MaxQueries
    /\ ReceiveQuery(Appender, style, image, outcome)

\* queries only, one at a time: every style, without image, with an upload of no
\* bytes, with an image for everything the Gemini service may do, and with
\* bytes that validate_image rejects
NextQuery ==
    \/ \E style \in QueryStyles, image \in {"none", "empty"} :
           QueryRequest(style, image, "not_asked")
    \/ \E style \in QueryStyles, outcome \in GeminiOutcomes :
           QueryRequest(style, "bytes", outcome)
    \/ \E style \in QueryStyles, image \in Uploads \ {"none", "empty", "bytes"} :
           QueryRequest(style, image, "not_asked")
    \/ RejectQuery(Appender)
    \/ \E users_write \in WriteOutcomes : ServeQuery(Appender, users_write)

SpecQuery == InitPipeline /\ [][NextQuery]_vars

----------------------------------------------------------------------------
(* Properties of the recommender, checked under SpecRecommend. *)

Recommended == reply.op = "recommend_outfits"

\* where in the catalog the item with this id stands
CatalogIndex(id) == CHOOSE k \in 1..Len(items_json) : items_json[k].id = id

\* the items recommend_outfits is to score: those passing the filter, or all
ClaimWorkingSet ==
    LET passing == filter_items_by_preferences(user_profile, items_json)
    IN  IF passing = <<>> THEN items_json ELSE passing

ClaimWorkingIds == {ClaimWorkingSet[k].id : k \in 1..Len(ClaimWorkingSet)}

\* C1: every recommended item carries fit, style, trend and feedback scores within
\* [0,100] (0..1000 tenths), a feedback score of 75, and an overall score equal to
\* 0.4*fit + 0.3*style + 0.2*trend + 0.1*feedback rounded to one decimal, itself
\* within [0,100].
C1_ScoresBoundedAndWeighted ==
    Recommended =>
        \A k \in 1..Len(reply.recommendations) :
            LET r == reply.recommendations[k]
            IN  /\ r.fit_score \in 0..1000
                /\ r.style_score \in 0..1000
                /\ r.trend_score \in 0..1000
                /\ r.feedback_score = 750
                /\ r.overall_score =
                       Round1(4 * r.fit_score + 3 * r.style_score
                              + 2 * r.trend_score + 1 * r.feedback_score)
                /\ r.overall_score \in 0..1000

\* C1 witness: an item whose fit score reached the clamp was scored
C1_Witness ==
    /\ Recommended
    /\ \E k \in 1..Len(reply.recommendations) :
           /\ reply.recommendations[k].fit_score = 1000
           /\ reply.recommendations[k].overall_score = 915

\* C2: for a limit >= 0 the recommendations are min(limit, size of the working set)
\* distinct items of the working set, in non-increasing overall_score order, equal
\* scores in catalog order, and every working-set item left out would sort behind
\* every item kept.
C2_RankedStableAndCut ==
    (Recommended /\ reply.max_recommendations >= 0) =>
        LET recs == reply.recommendations
            n == Len(recs)
            kept == {recs[k].id : k \in 1..n}
        IN  /\ n = Min(reply.max_recommendations, Len(ClaimWorkingSet))
            /\ kept \subseteq ClaimWorkingIds
            /\ \A a, b \in 1..n : a < b =>
                   \/ recs[a].overall_score > recs[b].overall_score
                   \/ /\ recs[a].overall_score = recs[b].overall_score
                      /\ CatalogIndex(recs[a].id) < CatalogIndex(recs[b].id)
            /\ \A k \in 1..n : \A id \in ClaimWorkingIds \ kept :
                   LET out == calculate_item_score(user_profile, items_json[CatalogIndex(id)])
                   IN  \/ out.overall_score < recs[k].overall_score
                       \/ /\ out.overall_score = recs[k].overall_score
                          /\ CatalogIndex(id) > CatalogIndex(recs[k].id)

\* C2 witness: two items of equal score were ranked and a third one was cut
C2_Witness ==
    /\ Recommended
    /\ Len(reply.recommendations) = 2
    /\ Len(ClaimWorkingSet) > 2
    /\ reply.recommendations[1].overall_score = reply.recommendations[2].overall_score

\* C3: over a non-empty catalog with a limit >= 1 at least one item is recommended,
\* and when no item passes the filter the items recommended are drawn from the
\* whole catalog, all of it when the limit allows.
C3_NeverEmptyOverNonEmptyCatalog ==
    (Recommended /\ reply.max_recommendations >= 1 /\ items_json # <<>>) =>
        /\ Len(reply.recommendations) >= 1
        /\ filter_items_by_preferences(user_profile, items_json) = <<>> =>
               Len(reply.recommendations) = Min(reply.max_recommendations, Len(items_json))

\* C3 witness: no item passed the filter and the whole catalog was recommended
C3_Witness ==
    /\ Recommended
    /\ items_json # <<>>
    /\ filter_items_by_preferences(user_profile, items_json) = <<>>
    /\ Len(reply.recommendations) = Len(items_json)

Filtered == reply.op = "filter_items_by_preferences"

\* a occurs in b as a run of consecutive characters
ClaimContains(b, a) ==
    \E k \in 0..(Len(b) - Len(a)) : SubSeq(b, k + 1, k + Len(a)) = a

\* the whitespace-delimited tokens of a text: its longest runs without a blank
ClaimTokens(s) ==
    {SubSeq(s, a, b) : <<a, b>> \in
        {<<a, b>> \in (1..Len(s)) \X (1..Len(s)) :
            /\ a <= b
            /\ \A k \in a..b : s[k] # " "
            /\ a = 1 \/ s[a - 1] = " "
            /\ b = Len(s) \/ s[b + 1] = " "}}

ClaimStyleGate(profile, item) ==
    \/ profile.preferred_style = <<>>
    \/ ClaimContains(Lower(item.style), Lower(profile.preferred_style))
    \/ ClaimContains(Lower(profile.preferred_style), Lower(item.style))
    \/ \E token \in ClaimTokens(Lower(profile.preferred_style)) :
           ClaimContains(Lower(item.style), token)

ClaimColorGate(profile, item) ==
    \/ profile.recommended_colors = <<>>
    \/ \E a \in 1..Len(profile.recommended_colors) : \E b \in 1..Len(item.colors) :
           Lower(profile.recommended_colors[a]) = Lower(item.colors[b])

\* the positions of the items of xs that pass both gates
ClaimPassing(xs) ==
    {k \in 1..Len(xs) : ClaimStyleGate(user_profile, xs[k]) /\ ClaimColorGate(user_profile, xs[k])}

\* C15: the filter returns exactly the items passing the style gate and the color gate,
\* in the order of its input and as they are in its input.
C15_FilterKeepsExactlyPassingItems ==
    Filtered =>
        /\ Len(reply.items) = Cardinality(ClaimPassing(reply.input))
        /\ \E at \in [1..Len(reply.items) -> 1..Len(reply.input)] :
               /\ \A k \in 1..Len(reply.items) :
                      at[k] \in ClaimPassing(reply.input) /\ reply.items[k] = reply.input[at[k]]
               /\ \A j, k \in 1..Len(reply.items) : j < k => at[j] < at[k]

\* C15 witness: of three catalog items the first and the last pass; the style of the
\* profile has two tokens
C15_Witness ==
    /\ Filtered
    /\ reply.pass = 1
    /\ Len(reply.input) = 3
    /\ Len(Split(Lower(user_profile.preferred_style))) = 2
    /\ reply.items = <<reply.input[1], reply.input[3]>>

\* of two catalog items the second passes by a color that the profile writes in
\* another case
C15_WitnessColors ==
    /\ Filtered
    /\ reply.pass = 1
    /\ Len(reply.input) = 2
    /\ user_profile.preferred_style # <<>>
    /\ user_profile.recommended_colors # <<>>
    /\ reply.items = <<reply.input[2]>>
    /\ \A a \in 1..Len(user_profile.recommended_colors) :
           ~InList(user_profile.recommended_colors[a], reply.input[2].colors)

\* C19: filtering what the filter returned, by the same profile, returns it unchanged.
C19_FilterIdempotent ==
    (Filtered /\ reply.pass = 2) => reply.items = reply.input

\* C19 witness: the first pass dropped an item of the catalog and kept two, the second
\* pass has run
C19_Witness ==
    /\ Filtered
    /\ reply.pass = 2
    /\ Len(items_json) = 3
    /\ Len(reply.items) = 2

\* Ranking as a function of the profile, the catalog and the limit, checked under
\* SpecRerank, where recommend_outfits is called again and again while the clock
\* advances.

\* the items of a ranking, in order, with their scores and without the time of the call
ClaimRanking(recommendations) ==
    [k \in 1..Len(recommendations) |->
        [f \in DOMAIN recommendations[k] \ {"recommended_at"} |-> recommendations[k][f]]]

\* the catalog positions to rank: those passing both gates, every position when
\* none passes
ClaimRanked ==
    IF ClaimPassing(items_json) = {} THEN 1..Len(items_json) ELSE ClaimPassing(items_json)

\* the item at a catalog position with its scores for the profile
ClaimScored(k) ==
    LET scores == calculate_item_score(user_profile, items_json[k])
    IN  [f \in (DOMAIN items_json[k] \cup DOMAIN scores) \ {"recommended_at"} |->
            IF f \in DOMAIN scores THEN scores[f] ELSE items_json[k][f]]

\* position a is ranked ahead of position b: by the higher overall score, by
\* catalog order when the scores are equal
ClaimAhead(scored, a, b) ==
    \/ scored[a].overall_score > scored[b].overall_score
    \/ scored[a].overall_score = scored[b].overall_score /\ a < b

\* the ranking of these positions of the scored catalog: the position with j positions
\* ahead of it stands at place j + 1, and the limit cuts the list as a slice does
ClaimRankingOf(scored, ranked, limit) ==
    LET size == Cardinality(ranked)
        length == IF limit >= 0 THEN Min(limit, size) ELSE Max(0, size + limit)
        at(j) == CHOOSE k \in ranked :
                     Cardinality({a \in ranked : ClaimAhead(scored, a, k)}) = j - 1
    IN  [j \in 1..length |-> scored[at(j)]]

\* the ranking that the profile, the catalog and the limit determine
ClaimExpectedRanking(limit) ==
    CHOOSE ranking \in
        {ClaimRankingOf(scored, ranked, limit) :
            scored \in {[k \in 1..Len(items_json) |-> ClaimScored(k)]},
            ranked \in {ClaimRanked}} : TRUE

\* C18: a rank call returns the items, the order and the scores that the profile, the
\* catalog and the limit determine, whatever the clock reads and whatever was ranked
\* before, so that a call returns what the call before it returned for the same
\* limit; and it leaves the profile, the catalog items and every stored document as
\* they are.
C18_RankingPure ==
    [][ next_uuid' = next_uuid + 1 =>
            /\ reply'.op = "recommend_outfits"
            /\ ClaimRanking(reply'.recommendations)
                   = ClaimExpectedRanking(reply'.max_recommendations)
            /\ (/\ reply.op = "recommend_outfits"
                /\ reply.max_recommendations = reply'.max_recommendations)
                   => ClaimRanking(reply'.recommendations) = ClaimRanking(reply.recommendations)
            /\ user_profile' = user_profile
            /\ items_json' = items_json
            /\ feedback_json' = feedback_json
            /\ users_json' = users_json
            /\ recommendations_json' = recommendations_json ]_vars

\* C18 witness: the second call, at a later clock reading, has ranked a catalog of
\* two items; no item passed the filter, so the list of the caller itself was scored,
\* and the second item came first
C18_Witness ==
    /\ Recommended
    /\ next_uuid = 3
    /\ ClaimPassing(items_json) = {}
    /\ Len(items_json) = 2
    /\ Len(reply.recommendations) = 2
    /\ reply.recommendations[1].recommended_at = 2
    /\ reply.recommendations[1].id = items_json[2].id
    /\ reply.recommendations[1].overall_score > reply.recommendations[2].overall_score

----------------------------------------------------------------------------
(* Properties of the outfits, checked under SpecOutfits. *)

Assembled == reply.op = "create_outfit_combinations"

\* the five categories an outfit has a slot for
ClaimSlots == { <<"t","o","p">>, <<"b","o","t","t","o","m">>, <<"o","u","t","e","r","w","e","a","r">>, <<"s","h","o","e","s">>, <<"a","c","c","e","s","s","o","r","i","e","s">> }

\* C13: at most 5 outfits, each of at most 5 items, every item one of the input, at
\* most one item of each of the five categories and none of another category; the
\* empty input gives no outfit.
C13_OutfitsBoundedOnePerCategory ==
    Assembled =>
        /\ Len(reply.outfits) <= 5
        /\ \A i \in 1..Len(reply.outfits) :
               LET items == reply.outfits[i].items
               IN  /\ Len(items) <= 5
                   /\ \A k \in 1..Len(items) :
                          /\ \E j \in 1..Len(reply.recommendations) :
                                 reply.recommendations[j] = items[k]
                          /\ items[k].category \in ClaimSlots
                   /\ \A slot \in ClaimSlots :
                          Cardinality({k \in 1..Len(items) : items[k].category = slot}) <= 1
        /\ reply.recommendations = <<>> => reply.outfits = <<>>

\* C13 witness: six ranked items, one of them a dress, give five outfits of five items
C13_Witness ==
    /\ Assembled
    /\ Len(reply.recommendations) = 6
    /\ Len(reply.outfits) = 5
    /\ \A i \in 1..5 : Len(reply.outfits[i].items) = 5

\* the sum of the overall scores of the items, in tenths
RECURSIVE ClaimScoreSum(_)
ClaimScoreSum(items) ==
    IF items = <<>> THEN 0 ELSE Head(items).overall_score + ClaimScoreSum(Tail(items))

\* C14: the total_score of an outfit is the mean of the overall scores of its items
\* rounded to one decimal (no multiple of 0.1 is nearer to the mean); when no ranked
\* item has a category with a slot, the outfits are emitted all the same, without
\* items and with total_score 0.
C14_TotalScoreIsMean ==
    Assembled =>
        /\ \A i \in 1..Len(reply.outfits) :
               LET o == reply.outfits[i]
                   n == Len(o.items)
                   off == o.total_score * n - ClaimScoreSum(o.items)
               IN  /\ n > 0 => (2 * off <= n /\ 2 * off >= 0 - n)
                   /\ n = 0 => o.total_score = 0
        /\ (/\ reply.recommendations # <<>>
            /\ \A j \in 1..Len(reply.recommendations) :
                   reply.recommendations[j].category \notin ClaimSlots)
               => /\ Len(reply.outfits) >= 1
                  /\ \A i \in 1..Len(reply.outfits) :
                         reply.outfits[i].items = <<>> /\ reply.outfits[i].total_score = 0

\* C14 witness: an outfit of three or more items whose mean score is no whole tenth
C14_Witness ==
    /\ Assembled
    /\ \E i \in 1..Len(reply.outfits) :
           LET o == reply.outfits[i]
           IN  /\ Len(o.items) >= 3
               /\ ClaimScoreSum(o.items) % Len(o.items) # 0
               /\ o.total_score > 0

\* two ranked items, neither with a slot, give two outfits without items
C14_WitnessNoCandidate ==
    /\ Assembled
    /\ Len(reply.recommendations) = 2
    /\ Len(reply.outfits) = 2
    /\ \A i \in 1..2 : reply.outfits[i].items = <<>> /\ reply.outfits[i].total_score = 0

\* an outfit of two items whose mean lies halfway between two tenths
C14_WitnessHalfway ==
    /\ Assembled
    /\ \E i \in 1..Len(reply.outfits) :
           /\ Len(reply.outfits[i].items) = 2
           /\ ClaimScoreSum(reply.outfits[i].items) % 2 = 1
           /\ reply.outfits[i].total_score % 2 = 0

----------------------------------------------------------------------------
(* Properties of the summaries, checked under SpecAggregate. *)

\* the weight the data model fixes for a kind, in thousandths
ClaimWeight(kind) ==
    CASE kind = "like" -> 1000
      [] kind = "dislike" -> -800
      [] kind = "save" -> 900
      [] kind = "share" -> 700
      [] kind = "view" -> 300

ClaimKinds == {"like", "dislike", "save", "share", "view"}

\* the positions of the log that hold an event with this value in this field
EventsWith(field, value) == {k \in 1..Len(feedback_json) : feedback_json[k][field] = value}

\* the sum of the fixed weights of the events at these positions
ClaimImportance(positions) ==
    LET n(kind) == Cardinality({k \in positions : feedback_json[k].feedback_type = kind})
    IN  n("like") * ClaimWeight("like") + n("dislike") * ClaimWeight("dislike")
        + n("save") * ClaimWeight("save") + n("share") * ClaimWeight("share")
        + n("view") * ClaimWeight("view")

\* C8: the user summary counts the user's events, breaks them down by kind and sums
\* their fixed weights (engagement, in hundredths); without events it is all zero.
C8_UserSummaryCountsAndEngagement ==
    reply.op = "get_user_feedback" =>
        LET mine == EventsWith("user_id", reply.user_id)
            s == reply.summary
        IN  /\ s.total_feedback = Cardinality(mine)
            /\ DOMAIN s.feedback_breakdown =
                   {feedback_json[k].feedback_type : k \in mine}
            /\ \A kind \in DOMAIN s.feedback_breakdown :
                   s.feedback_breakdown[kind] =
                       Cardinality({k \in mine : feedback_json[k].feedback_type = kind})
            /\ s.engagement_score * 10 = ClaimImportance(mine)
            /\ mine = {} => (s.total_feedback = 0 /\ s.engagement_score = 0
                             /\ s.feedback_breakdown = <<>>)

\* C8 witness: two likes and one dislike of one user give an engagement of 1.2
C8_Witness ==
    /\ reply.op = "get_user_feedback"
    /\ reply.summary.total_feedback = 3
    /\ reply.summary.feedback_breakdown = ("like" :> 2 @@ "dislike" :> 1)
    /\ reply.summary.engagement_score = 120

\* C9: the trending items are at most `limit` and stand in non-increasing order of
\* their aggregate importance.
C9_TrendingSortedDescending ==
    (reply.op = "get_trending_items" /\ reply.limit >= 0) =>
        /\ Len(reply.items) <= reply.limit
        /\ \A a, b \in 1..Len(reply.items) : a < b =>
               ClaimImportance(EventsWith("item_id", reply.items[a].id))
                   >= ClaimImportance(EventsWith("item_id", reply.items[b].id))

\* x + y of two doubles as a real number, without rounding
ClaimExactAdd(x, y) ==
    IF x.neg = y.neg THEN Signed(x.neg, MagAdd(x, y))
    ELSE IF MagLess(x, y) THEN Signed(y.neg, MagSub(y, x))
    ELSE Signed(x.neg, MagSub(x, y))

\* n times the double x as a real number
RECURSIVE ClaimExactTimes(_, _)
ClaimExactTimes(n, x) ==
    IF n = 0 THEN DoubleZero ELSE ClaimExactAdd(ClaimExactTimes(n - 1, x), x)

\* the double d is the sum of the weights (the doubles that stand for them) of the
\* events at these positions, up to the rounding of the additions: they differ by at
\* most 2^-50 per event
ClaimIsSumOfWeights(d, positions) ==
    LET n(kind) == Cardinality({k \in positions : feedback_json[k].feedback_type = kind})
        Part(kind) == ClaimExactTimes(n(kind), DoubleOf[ClaimWeight(kind)])
        sum == ClaimExactAdd(ClaimExactAdd(Part("like"), Part("dislike")),
                   ClaimExactAdd(ClaimExactAdd(Part("save"), Part("share")), Part("view")))
        off == ClaimExactAdd(d, Signed(~sum.neg, sum))
    IN  off.hi = 0 /\ off.lo <= 16 * Cardinality(positions)

\* C10: every trending item is a catalog item with at least one event, fewer than
\* `limit` ids have a higher aggregate importance than it, and its trending_score is
\* the sum of the weights of its events (a sum of doubles); an id without catalog
\* record is not returned.
C10_TrendingItemsAreTopCatalogItems ==
    (reply.op = "get_trending_items" /\ reply.limit >= 0) =>
        \A k \in 1..Len(reply.items) :
            LET x == reply.items[k]
                events == EventsWith("item_id", x.id)
                rated == {feedback_json[j].item_id : j \in 1..Len(feedback_json)}
                higher == {id \in rated : ClaimImportance(EventsWith("item_id", id))
                                              > ClaimImportance(events)}
            IN  /\ \E c \in 1..Len(items_json) : items_json[c].id = x.id
                /\ events # {}
                /\ Cardinality(higher) < reply.limit
                /\ ClaimIsSumOfWeights(x.trending_score, events)

\* C10 witness: i3 has the most feedback and no catalog record; a catalog item with
\* less feedback is returned next to it being dropped
C10_Witness ==
    /\ reply.op = "get_trending_items"
    /\ reply.limit = 2
    /\ EventsWith("item_id", "i3") # {}
    /\ \A k \in 1..Len(feedback_json) :
           ClaimImportance(EventsWith("item_id", "i3"))
               >= ClaimImportance(EventsWith("item_id", feedback_json[k].item_id))
    /\ Len(reply.items) = 1

\* Trending as a function of the log, the catalog and the limit, checked under
\* SpecTrendingAgain.

\* the item ids that have an event in the log
ClaimRatedIds == {feedback_json[k].item_id : k \in 1..Len(feedback_json)} \ {""}

\* where in the log the first event of the item stands
ClaimFirstEvent(id) ==
    CHOOSE k \in EventsWith("item_id", id) : \A j \in EventsWith("item_id", id) : k <= j

\* a comes ahead of b among the trending ids: by the higher sum of importances, by
\* the earlier first event when the sums are equal
ClaimOutranks(a, b) ==
    LET sum_a == double_item_score(feedback_json, a)
        sum_b == double_item_score(feedback_json, b)
    IN  \/ DoubleLess(sum_b, sum_a)
        \/ /\ ~DoubleLess(sum_a, sum_b)
           /\ ClaimFirstEvent(a) < ClaimFirstEvent(b)

\* the ids with fewer than `limit` ids ahead of them
ClaimTopIds(limit) ==
    {id \in ClaimRatedIds :
        Cardinality({other \in ClaimRatedIds : ClaimOutranks(other, id)}) < limit}

\* the trending items that the log, the catalog and the limit determine: the catalog
\* items whose id is among the top ids, in catalog order, each with the sum of the
\* importances of its events as trending_score
ClaimExpectedTrending(limit) ==
    LET top == {k \in 1..Len(items_json) : items_json[k].id \in ClaimTopIds(limit)}
        at(j) == CHOOSE k \in top : Cardinality({a \in top : a < k}) = j - 1
    IN  [j \in 1..Cardinality(top) |->
            [f \in DOMAIN items_json[at(j)] \cup {"trending_score"} |->
                IF f = "trending_score"
                THEN double_item_score(feedback_json, items_json[at(j)].id)
                ELSE items_json[at(j)][f]]]

\* C20: a trending call returns the items, the order and the trending scores that the
\* log, the catalog and the limit determine, whatever was asked before, so that a call
\* returns what the call before it returned for the same limit; and it leaves
\* feedback.json and items.json as they are.
C20_TrendingDeterministic ==
    [][ Len(calls') = Len(calls) + 1 =>
            /\ reply'.op = "get_trending_items"
            /\ reply'.items = ClaimExpectedTrending(reply'.limit)
            /\ (reply.op = "get_trending_items" /\ reply.limit = reply'.limit)
                   => reply'.items = reply.items
            /\ feedback_json' = feedback_json
            /\ items_json' = items_json ]_vars

\* C20 witness: the second of two calls with limit 1 has returned one item, the
\* first of two catalog items that have the highest sum of importances, the same for
\* both; the call wrote its trending_score into the item it returned
C20_Witness ==
    /\ reply.op = "get_trending_items"
    /\ Len(calls) = 2
    /\ calls[1].limit = 1 /\ calls[2].limit = 1
    /\ Len(reply.items) = 1
    /\ \E a, b \in 1..Len(items_json) :
           /\ a # b
           /\ reply.items[1].id = items_json[a].id
           /\ "trending_score" \notin DOMAIN items_json[a]
           /\ EventsWith("item_id", items_json[b].id) # {}
           /\ ClaimImportance(EventsWith("item_id", items_json[a].id))
                  = ClaimImportance(EventsWith("item_id", items_json[b].id))
           /\ \A k \in 1..Len(feedback_json) :
                  ClaimImportance(EventsWith("item_id", feedback_json[k].item_id))
                      <= ClaimImportance(EventsWith("item_id", items_json[a].id))

ItemSummarized == reply.op = "get_item_feedback_summary"

\* count and per-kind breakdown of the summary are those of the events at `positions`
ClaimCountsOf(s, positions) ==
    /\ s.total_feedback = Cardinality(positions)
    /\ DOMAIN s.feedback_breakdown = {feedback_json[k].feedback_type : k \in positions}
    /\ \A kind \in DOMAIN s.feedback_breakdown :
           s.feedback_breakdown[kind] =
               Cardinality({k \in positions : feedback_json[k].feedback_type = kind})

\* (mean importance) * 20 clamped to [0, 100], as a multiple of 1 / (5000 * n):
\* the mean of n weights in thousandths, times 20, is total / (50 * n) and the
\* score counts tenths
ClaimClampedPopularity(positions) ==
    Min(Max(ClaimImportance(positions), 0), 5000 * Cardinality(positions))

\* C11 as stated: the popularity score of an item with events is exactly the clamped
\* mean importance times 20, next to the event count and the per-kind breakdown; an
\* item without events gets total 0, an empty breakdown and popularity 0.
C11_PopularityIsClampedMean ==
    ItemSummarized =>
        LET its == EventsWith("item_id", reply.item_id)
            s == reply.summary
        IN  /\ ClaimCountsOf(s, its)
            /\ its # {} =>
                   s.popularity_score * 5 * Cardinality(its) = ClaimClampedPopularity(its)
            /\ its = {} => (s.total_feedback = 0 /\ s.feedback_breakdown = <<>>
                            /\ s.popularity_score = 0)

\* C11 amended: the popularity score is the clamped mean importance times 20 rounded to
\* one decimal (it is the multiple of 0.1 nearest to it); counts, breakdown and the
\* item without events are as stated.
C11_PopularityIsRoundedClampedMean ==
    ItemSummarized =>
        LET its == EventsWith("item_id", reply.item_id)
            s == reply.summary
            n == Cardinality(its)
            off == s.popularity_score * 5 * n - ClaimClampedPopularity(its)
        IN  /\ ClaimCountsOf(s, its)
            /\ its # {} => (2 * off <= 5 * n /\ 2 * off >= 0 - 5 * n)
            /\ s.popularity_score >= 0 /\ s.popularity_score <= 1000
            /\ its = {} => (s.total_feedback = 0 /\ s.feedback_breakdown = <<>>
                            /\ s.popularity_score = 0)

\* C11 witness: a like and two views of one item, mean 1.6 / 3, popularity 10.7
C11_Witness ==
    /\ ItemSummarized
    /\ reply.summary.total_feedback = 3
    /\ reply.summary.feedback_breakdown = ("like" :> 1 @@ "view" :> 2)
    /\ reply.summary.popularity_score = 107

\* C12: needs_more_feedback is true exactly under 3 events of the user, whatever their
\* kinds; from 3 events on it is false, the explore suggestions are given exactly when
\* dislikes > 2 * likes, the affirming ones exactly when likes > 0 and dislikes = 0,
\* none otherwise, and feedback_quality is "good" exactly from 10 events on, else
\* "improving".  Checked under SpecImprove.
C12_ImprovementsFollowCounts ==
    reply.op = "get_recommendation_improvements" =>
        LET mine == EventsWith("user_id", reply.user_id)
            n == Cardinality(mine)
            likes == Cardinality({k \in mine : feedback_json[k].feedback_type = "like"})
            dislikes == Cardinality({k \in mine : feedback_json[k].feedback_type = "dislike"})
            r == reply.improvements
            Gives(texts) == \E a \in 0..Len(r.suggestions) : \E b \in a..Len(r.suggestions) :
                                SubSeq(r.suggestions, a + 1, b) = texts /\ a < b
        IN  /\ r.needs_more_feedback = (n < 3)
            /\ n >= 3 =>
                  /\ Gives(explore_suggestions) = (dislikes > 2 * likes)
                  /\ Gives(clear_suggestions) = (likes > 0 /\ dislikes = 0)
                  /\ (~(dislikes > 2 * likes) /\ ~(likes > 0 /\ dislikes = 0))
                         => r.suggestions = <<>>
                  /\ r.feedback_quality = IF n >= 10 THEN "good" ELSE "improving"

\* C12 witness: ten events of one user, eight of them dislikes and two likes
C12_Witness ==
    /\ reply.op = "get_recommendation_improvements"
    /\ Cardinality(EventsWith("user_id", reply.user_id)) = 10
    /\ reply.improvements.feedback_quality = "good"
    /\ reply.improvements.suggestions = explore_suggestions

\* the user has exactly 3 events, none of them a like or a dislike, and is told that
\* no more feedback is needed, with no suggestion
C12_WitnessThree ==
    /\ reply.op = "get_recommendation_improvements"
    /\ Cardinality(EventsWith("user_id", reply.user_id)) = 3
    /\ Len(feedback_json) > 3
    /\ reply.improvements.needs_more_feedback = FALSE
    /\ reply.improvements.suggestions = <<>>
    /\ reply.improvements.feedback_quality = "improving"

----------------------------------------------------------------------------
(* Properties of recording feedback, checked under SpecFeedback (one call  *)
(* after the other) and SpecConcurrent (several requests in flight).       *)

\* the liked, disliked or saved items of a user, as a set; empty when the user is
\* not stored or has no feedback_history yet
Projection(user_id, list) ==
    LET k == FindUser(users_json, user_id)
    IN  IF k = 0 THEN {}
        ELSE LET xs == Get(users_json[k], "feedback_history", EmptyHistory)[list]
             IN  {xs[j] : j \in 1..Len(xs)}

\* the request names no kind, or one that is not among the five
KindUnrecognized(payload) ==
    \/ "feedback_type" \notin DOMAIN payload
    \/ payload.feedback_type \notin ClaimKinds

\* C4: a record_feedback call whose kind is not one of like, dislike, save, share,
\* view is rejected and changes neither the event log nor any user's projection.
C4_UnrecognizedKindRejected ==
    [][Len(calls') = Len(calls) + 1 =>
          LET call == calls'[Len(calls')]
          IN  KindUnrecognized(call.payload) =>
                  /\ call.outcome = "rejected"
                  /\ feedback_json' = feedback_json
                  /\ users_json' = users_json]_vars

\* C5: whatever the order in which the record_feedback calls in flight are served,
\* every event of the log stays in the log, unmodified and at its position.
C5_LogOnlyGrows ==
    [][/\ Len(feedback_json') >= Len(feedback_json)
       /\ \A k \in 1..Len(feedback_json) : feedback_json'[k] = feedback_json[k]]_vars

\* C6: in every reachable state no item id is both in the liked and in the disliked
\* list of the same stored user.
C6_LikedDislikedDisjoint ==
    \A k \in 1..Len(users_json) :
        Projection(users_json[k].id, "liked_items")
            \cap Projection(users_json[k].id, "disliked_items") = {}

\* C6 witness: u1 liked i1 and then disliked it, both requests having been in the
\* history with every write done: the dislike took i1 out of the liked items
C6_Witness ==
    /\ InFlight = {}
    /\ Len(feedback_json) = 2
    /\ feedback_json[1].feedback_type = "like"
    /\ feedback_json[2].feedback_type = "dislike"
    /\ feedback_json[1].user_id = "u1" /\ feedback_json[2].user_id = "u1"
    /\ feedback_json[1].item_id = "i1" /\ feedback_json[2].item_id = "i1"
    /\ \A k \in 1..Len(calls) : calls[k].users = "saved"
    /\ Projection("u1", "liked_items") = {}
    /\ Projection("u1", "disliked_items") = {"i1"}

\* the last two calls were first_kind and then second_kind of one user for one item
LastTwoCalls(first_kind, second_kind) ==
    /\ Len(calls) >= 2
    /\ LET a == calls[Len(calls) - 1]
           b == calls[Len(calls)]
       IN  /\ "feedback_type" \in DOMAIN a.payload /\ a.payload.feedback_type = first_kind
           /\ "feedback_type" \in DOMAIN b.payload /\ b.payload.feedback_type = second_kind
           /\ a.payload.user_id = b.payload.user_id
           /\ a.payload.item_id = b.payload.item_id

LastCall == calls[Len(calls)].payload

\* the item of the last call is in the one list of its user and not in the other
LastItemOnlyIn(list, other) ==
    /\ LastCall.item_id \in Projection(LastCall.user_id, list)
    /\ LastCall.item_id \notin Projection(LastCall.user_id, other)

\* C7: for every user and item, like then dislike leaves the item in the disliked
\* items of the user and out of the liked items; dislike then like leaves it in the
\* liked items and out of the disliked items.
C7_LastFeedbackWins ==
    /\ LastTwoCalls("like", "dislike") => LastItemOnlyIn("disliked_items", "liked_items")
    /\ LastTwoCalls("dislike", "like") => LastItemOnlyIn("liked_items", "disliked_items")

----------------------------------------------------------------------------
(* Reads in flight together with a /feedback request, checked under        *)
(* SpecReadDuringAppend.  The log that the claim speaks of is rebuilt from *)
(* the history of the requests answered: an event is committed when its    *)
(* record_feedback call appended it.                                       *)

\* the uuids drawn by the first n requests of the history: one by every call that
\* built a record
ClaimDrawn(n) ==
    Cardinality({k \in 1..n : calls[k].outcome \in {"recorded", "append_failed"}})

\* the events committed by the first n requests of the history, in their order
RECURSIVE ClaimCommittedLog(_)
ClaimCommittedLog(n) ==
    IF n = 0 THEN <<>>
    ELSE IF calls[n].outcome = "recorded"
         THEN Append(ClaimCommittedLog(n - 1),
                     RecordOf(calls[n].payload, ClaimDrawn(n - 1) + 1))
         ELSE ClaimCommittedLog(n - 1)

\* the log with the event of this payload appended after the n first requests; the
\* same log when the payload is one that appends nothing
ClaimLogAfter(n, payload) ==
    IF MissingField(payload) = "" /\ Accepted(payload)
    THEN Append(ClaimCommittedLog(n), RecordOf(payload, ClaimDrawn(n) + 1))
    ELSE ClaimCommittedLog(n)

\* the reply of the step is what the read of slot r returns for this log
ClaimReadResultFor(r, log) ==
    \/ /\ req[r].op = "get_user_feedback"
       /\ reply'.op = "get_user_feedback"
       /\ reply'.user_id = req[r].user_id
       /\ reply'.summary = get_user_feedback_summary(log, req[r].user_id)
    \/ /\ req[r].op = "get_trending_items"
       /\ reply'.op = "get_trending_items"
       /\ \E sorted_ids \in SortedItemIds(log) :
              reply'.items = get_trending_items(log, items_json, 10, sorted_ids)

\* the step answers the read in flight in slot r
ClaimReadServed(r) ==
    /\ pc[r] = "received"
    /\ pc'[r] = "idle"
    /\ req[r].op \in {"get_user_feedback", "get_trending_items"}

\* C16: a get_user_feedback or get_trending_items request that was in flight together
\* with one /feedback request returns what it returns for the log of the events
\* committed before that request, or for that log with the event of that request:
\* whether the /feedback request is still in flight when the read is answered, or
\* was answered after the read arrived.
C16_ReadSeesLogBeforeOrAfter ==
    [][ (ClaimReadServed(Reader) =>
            /\ (pc[Appender] = "received" /\ Len(calls) = req[Reader].arrived) =>
                    \/ ClaimReadResultFor(Reader, ClaimCommittedLog(Len(calls)))
                    \/ ClaimReadResultFor(Reader,
                           ClaimLogAfter(Len(calls), req[Appender].payload))
            /\ (pc[Appender] = "idle" /\ Len(calls) = req[Reader].arrived + 1) =>
                    \/ ClaimReadResultFor(Reader, ClaimCommittedLog(Len(calls) - 1))
                    \/ ClaimReadResultFor(Reader,
                           ClaimLogAfter(Len(calls) - 1, calls[Len(calls)].payload)) ) ]_vars

----------------------------------------------------------------------------
(* The projection against the log, checked under SpecConcurrent.           *)

\* the liked, disliked and saved sets that the events of a user give when they are
\* applied in log order
RECURSIVE ClaimReplay(_, _)
ClaimReplay(log, user_id) ==
    IF log = <<>> THEN [liked_items |-> {}, disliked_items |-> {}, saved_items |-> {}]
    ELSE LET before == ClaimReplay(SubSeq(log, 1, Len(log) - 1), user_id)
             e == log[Len(log)]
         IN  IF e.user_id # user_id THEN before
             ELSE IF e.feedback_type = "like"
             THEN [before EXCEPT !.liked_items = @ \cup {e.item_id},
                                 !.disliked_items = @ \ {e.item_id}]
             ELSE IF e.feedback_type = "dislike"
             THEN [before EXCEPT !.disliked_items = @ \cup {e.item_id},
                                 !.liked_items = @ \ {e.item_id}]
             ELSE IF e.feedback_type = "save"
             THEN [before EXCEPT !.saved_items = @ \cup {e.item_id}]
             ELSE before

\* C17: whenever no record_feedback request is in flight, the liked, disliked and
\* saved items of every stored user are those that replaying the user's events from
\* the log gives, in whatever order the requests were served.
C17_ProjectionIsReplayOfLog ==
    InFlight = {} =>
        \A k \in 1..Len(users_json) :
            \A list \in {"liked_items", "disliked_items", "saved_items"} :
                Projection(users_json[k].id, list)
                    = ClaimReplay(feedback_json, users_json[k].id)[list]

----------------------------------------------------------------------------
(* The three component scores, checked under SpecRecommend.                *)

\* 0.7*likes + 1.3*saves as the real number it is, counting tenths
ClaimEngagement(item) == 7 * item.likes + 13 * item.saves

\* C21: the trend score of a recommended item is 100 when its engagement
\* 0.7*likes + 1.3*saves is at least 1000, 80 when it is at least 500, 60 when it is
\* at least 100, and 40 otherwise.
C21_TrendScoreSteps ==
    Recommended =>
        \A k \in 1..Len(reply.recommendations) :
            LET r == reply.recommendations[k]
                e == ClaimEngagement(r)
            IN  r.trend_score = IF e >= 10000 THEN 1000
                                ELSE IF e >= 5000 THEN 800
                                ELSE IF e >= 1000 THEN 600
                                ELSE 400

\* the six styles that have a keyword list
ClaimStyleKeys ==
    { <<"v","i","n","t","a","g","e">>, <<"s","t","r","e","e","t","w","e","a","r">>,
      <<"f","o","r","m","a","l">>, <<"c","a","s","u","a","l">>,
      <<"b","o","h","e","m","i","a","n">>, <<"m","i","n","i","m","a","l","i","s","t">> }

\* the profile style and the style of a scored item contain one another, one way or
\* the other (texts are compared lower-cased)
ClaimContainment(r) ==
    \/ IsSubstr(Lower(user_profile.preferred_style), Lower(r.style))
    \/ IsSubstr(Lower(r.style), Lower(user_profile.preferred_style))

\* how many keywords of the profile style's list occur in the item's style, title or
\* description
ClaimStyleKeywordHits(r) ==
    LET s == Lower(user_profile.preferred_style)
        list == IF s \in ClaimStyleKeys THEN style_keywords[s] ELSE <<>>
    IN  Cardinality({j \in 1..Len(list) :
            \/ IsSubstr(list[j], Lower(r.style))
            \/ IsSubstr(list[j], Lower(r.title))
            \/ IsSubstr(list[j], Lower(r.description))})

\* C22: the style score of a recommended item is 75 when the profile has no style;
\* otherwise 90 when the profile style contains or is contained in the item style;
\* otherwise 70 + 5*h when h >= 1 keywords of the profile style's list occur in the
\* item's style, title or description; otherwise 60.  A profile style outside the six
\* listed ones without containment scores 60.
C22_StyleScoreCases ==
    Recommended =>
        \A k \in 1..Len(reply.recommendations) :
            LET r == reply.recommendations[k]
                h == ClaimStyleKeywordHits(r)
            IN  /\ r.style_score =
                       IF user_profile.preferred_style = <<>> THEN 750
                       ELSE IF ClaimContainment(r) THEN 900
                       ELSE IF h >= 1 THEN 700 + 50 * h
                       ELSE 600
                /\ (/\ user_profile.preferred_style # <<>>
                    /\ Lower(user_profile.preferred_style) \notin ClaimStyleKeys
                    /\ ~ClaimContainment(r))
                       => r.style_score = 600

\* C22 witness: an item scored 80 by two keyword hits
C22_Witness ==
    /\ Recommended
    /\ \E k \in 1..Len(reply.recommendations) :
           /\ ~ClaimContainment(reply.recommendations[k])
           /\ ClaimStyleKeywordHits(reply.recommendations[k]) = 2
           /\ reply.recommendations[k].style_score = 800

\* C22 witness: an item scored 60 for a profile style that has no keyword list
C22_WitnessUnlistedStyle ==
    /\ Recommended
    /\ Lower(user_profile.preferred_style) \notin ClaimStyleKeys
    /\ \E k \in 1..Len(reply.recommendations) :
           /\ ~ClaimContainment(reply.recommendations[k])
           /\ reply.recommendations[k].style_score = 600

\* the base of the fit score: the table entry of shape and category, or 75
ClaimFitBase(r) ==
    LET shape == Lower(user_profile.body_shape)
        category == Lower(r.category)
    IN  IF shape \in DOMAIN compatibility_rules
           /\ category \in DOMAIN compatibility_rules[shape]
        THEN compatibility_rules[shape][category]
        ELSE 75

\* how many positive keywords of the body shape occur in title or description
ClaimFitKeywordHits(r) ==
    LET shape == Lower(user_profile.body_shape)
        list == IF shape \in DOMAIN positive_keywords THEN positive_keywords[shape] ELSE <<>>
    IN  Cardinality({j \in 1..Len(list) :
            IsSubstr(list[j], Lower(r.title)) \/ IsSubstr(list[j], Lower(r.description))})

\* C23: the fit score of a recommended item is min(100, base + 5*k), base being the
\* table entry for body shape and category, or 75 without entry, and k the number of
\* the shape's positive keywords in the item's title or description, case ignored.
C23_FitScoreIsBasePlusKeywords ==
    Recommended =>
        \A k \in 1..Len(reply.recommendations) :
            LET r == reply.recommendations[k]
            IN  r.fit_score = Min(1000, 10 * ClaimFitBase(r) + 50 * ClaimFitKeywordHits(r))

\* C23 witness: hourglass and a top without keyword give 85
C23_Witness ==
    /\ Recommended
    /\ Lower(user_profile.body_shape) = <<"h","o","u","r","g","l","a","s","s">>
    /\ \E k \in 1..Len(reply.recommendations) :
           /\ Lower(reply.recommendations[k].category) = <<"t","o","p">>
           /\ ClaimFitKeywordHits(reply.recommendations[k]) = 0
           /\ reply.recommendations[k].fit_score = 850

\* C23 witness: a keyword found in the description only raised the score
C23_WitnessDescription ==
    /\ Recommended
    /\ \E k \in 1..Len(reply.recommendations) :
           LET r == reply.recommendations[k]
           IN  /\ r.fit_score > 10 * ClaimFitBase(r)
               /\ r.fit_score < 1000
               /\ \E j \in 1..Len(positive_keywords[Lower(user_profile.body_shape)]) :
                      /\ IsSubstr(positive_keywords[Lower(user_profile.body_shape)][j],
                                  Lower(r.description))
                      /\ ~IsSubstr(positive_keywords[Lower(user_profile.body_shape)][j],
                                   Lower(r.title))

\* the number of distinct lower-cased style tags among the members of an outfit
ClaimDistinctStyles(o) == Cardinality({Lower(o.items[k].style) : k \in 1..Len(o.items)})

\* C24: the style_cohesion of an outfit of two or more members is
\* max(20, 100 - 20*d), d being the number of distinct lower-cased style tags of its
\* members; of two such outfits the one with fewer distinct styles never has the lower
\* cohesion; an outfit of exactly one member has cohesion 50.
C24_CohesionByDistinctStyles ==
    Assembled =>
        \A i \in 1..Len(reply.outfits) :
            LET o == reply.outfits[i]
            IN  /\ Len(o.items) >= 2 =>
                       o.style_cohesion = Max(200, 1000 - 200 * ClaimDistinctStyles(o))
                /\ Len(o.items) = 1 => o.style_cohesion = 500
                /\ \A j \in 1..Len(reply.outfits) :
                       (/\ Len(o.items) >= 2
                        /\ Len(reply.outfits[j].items) >= 2
                        /\ ClaimDistinctStyles(o) <= ClaimDistinctStyles(reply.outfits[j]))
                           => o.style_cohesion >= reply.outfits[j].style_cohesion

\* C24 witness: five members of five styles, the cohesion is at its floor
C24_Witness ==
    /\ Assembled
    /\ \E i \in 1..Len(reply.outfits) :
           /\ Len(reply.outfits[i].items) = 5
           /\ ClaimDistinctStyles(reply.outfits[i]) = 5
           /\ reply.outfits[i].style_cohesion = 200

\* C24 witness: an outfit of one member
C24_WitnessSingle ==
    /\ Assembled
    /\ \E i \in 1..Len(reply.outfits) :
           /\ Len(reply.outfits[i].items) = 1
           /\ reply.outfits[i].style_cohesion = 500

\* C24 witness: two members whose style tags differ in case only count as one style
C24_WitnessCase ==
    /\ Assembled
    /\ \E i \in 1..Len(reply.outfits) :
           LET o == reply.outfits[i]
           IN  /\ Len(o.items) = 2
               /\ o.items[1].style # o.items[2].style
               /\ o.style_cohesion = 800

\* C24 witness: two outfits of one reply, the one with fewer styles more cohesive
C24_WitnessFewerStyles ==
    /\ Assembled
    /\ \E i, j \in 1..Len(reply.outfits) :
           /\ Len(reply.outfits[i].items) >= 2
           /\ Len(reply.outfits[j].items) >= 2
           /\ ClaimDistinctStyles(reply.outfits[i]) < ClaimDistinctStyles(reply.outfits[j])
           /\ reply.outfits[i].style_cohesion > reply.outfits[j].style_cohesion

\* how many items of the assembler's input have the category of x and a higher
\* overall_score than x
ClaimBetterInCategory(x) ==
    Cardinality({k \in 1..Len(reply.recommendations) :
                    /\ reply.recommendations[k].category = x.category
                    /\ reply.recommendations[k].overall_score > x.overall_score})

\* how many of the highest-scored items of a category the assembler chooses among
ClaimPoolSize(category) ==
    IF category \in {<<"t","o","p">>, <<"b","o","t","t","o","m">>} THEN 3 ELSE 2

\* C25: every item placed in an outfit is one of the highest-scored items of its
\* category in the input, whatever the order of the input: one of the 3 highest for
\* top and bottom, one of the 2 highest for outerwear, shoes and accessories.
C25_PicksAmongHighestScored ==
    Assembled =>
        \A i \in 1..Len(reply.outfits) :
            \A k \in 1..Len(reply.outfits[i].items) :
                LET x == reply.outfits[i].items[k]
                IN  ClaimBetterInCategory(x) < ClaimPoolSize(x.category)

----------------------------------------------------------------------------
(* Properties of the queries, checked under SpecQuery. *)

QueryReturned == reply.op = "query"

\* the query just answered came with an image and the Gemini service was not there
\* or failed
ClaimAnalysisFailed ==
    /\ calls[Len(calls)].status = "success"
    /\ calls[Len(calls)].image = "bytes"
    /\ calls[Len(calls)].outcome \in {"no_api_key", "no_response", "broken_json"}

\* C26: when the profile analysis fails or is unavailable, the query still succeeds
\* and the user record holds the default analysis that the requested style gives
\* (by the first of vintage, streetwear, formal, casual it contains, else the generic
\* default).
C26_FailedAnalysisGivesStyleDefault ==
    (QueryReturned /\ ClaimAnalysisFailed) =>
        /\ reply.status = "success"
        /\ reply.user.body_shape_analysis =
               get_default_body_analysis(calls[Len(calls)].style)

----------------------------------------------------------------------------
(* Properties of query followed by recommend, checked under SpecPipeline.  *)

Ranked == reply.op = "recommend" /\ reply.status = "success"

\* the profile that the query stored in the user record: its style, and the body shape
\* and the recommended colors of its body_shape_analysis
ClaimStoredProfile(user) ==
    [body_shape |-> user.body_shape_analysis.body_shape,
     preferred_style |-> user.preferred_style,
     recommended_colors |-> user.body_shape_analysis.recommended_colors]

\* C27: the recommendations for a stored user are ranked with the body shape and the
\* recommended colors that the query stored: every fit_score comes from the row of
\* that body shape, and every recommended item is one that the filter keeps for
\* those colors.
C27_RecommendUsesStoredAnalysis ==
    Ranked =>
        LET stored == ClaimStoredProfile(reply.user)
            kept == WorkingSet(stored, items_json)
        IN  \A k \in 1..Len(reply.recommendations) :
                /\ reply.recommendations[k].fit_score
                       = 10 * calculate_fit_score(stored, reply.recommendations[k])
                /\ \E j \in 1..Len(kept) : kept[j].id = reply.recommendations[k].id

\* the id of the user of the last query whose save_json wrote users.json
ClaimLastStoredUserId ==
    LET stored == {k \in 1..Len(calls) : calls[k].op = "query" /\ calls[k].users = "saved"}
    IN  calls[CHOOSE k \in stored : \A j \in stored : j <= k].user_id

\* this step is the answer to the recommendation in flight in slot t
ClaimRecommendAnswered(t) ==
    /\ pc[t] = "received"
    /\ req[t].op = "recommend"
    /\ pc'[t] = "idle"

\* C30: a recommendation is computed from the last record of users.json at the moment
\* it runs, which is the record of the user stored most recently, whichever request
\* slot its query came through; it is rejected, and recommendations.json keeps its
\* content, when users.json or items.json is empty.
C30_RecommendUsesLastStoredUser ==
    [][ \A t \in Tasks :
            /\ (ClaimRecommendAnswered(t) /\ users_json # <<>> /\ items_json # <<>>) =>
                   /\ reply'.op = "recommend"
                   /\ reply'.status = "success"
                   /\ reply'.user = users_json[Len(users_json)]
                   /\ reply'.user.id = ClaimLastStoredUserId
                   /\ reply'.recommendations =
                          recommend_outfits(ProfileRead(users_json[Len(users_json)]),
                                            items_json, req[t].max_recommendations,
                                            next_uuid)
                   /\ recommendations_json' \in
                          {reply'.recommendations, <<>>, recommendations_json}
            /\ (ClaimRecommendAnswered(t) /\ (users_json = <<>> \/ items_json = <<>>)) =>
                   /\ reply'.op = "recommend"
                   /\ reply'.status = "error"
                   /\ recommendations_json' = recommendations_json ]_vars

\* C30 witness: two clients, t1 and t2, have each sent a query and then asked for
\* recommendations; the query of t1 was served first, then that of t2, and both
\* recommendations, that of t1 too, were computed for the user of t2
C30_Witness ==
    /\ Ranked
    /\ Len(calls) = 4
    /\ calls[1].op = "query" /\ calls[1].task = "t1" /\ calls[1].users = "saved"
    /\ calls[2].op = "query" /\ calls[2].task = "t2" /\ calls[2].users = "saved"
    /\ calls[1].user_id # calls[2].user_id
    /\ calls[3].op = "recommend" /\ calls[3].task = "t1" /\ calls[3].status = "success"
    /\ calls[3].user_id = calls[2].user_id
    /\ calls[4].op = "recommend" /\ calls[4].task = "t2"
    /\ reply.user.id = calls[2].user_id
    /\ reply.user = users_json[2]
    /\ reply.recommendations # <<>>

\* C30 witness: a recommendation asked for while users.json was empty was rejected
C30_WitnessNoUser ==
    /\ reply.op = "recommend"
    /\ reply.status = "error"
    /\ reply.detail[3] = "No user data found. Please process a query first."
    /\ users_json = <<>>
    /\ recommendations_json = <<>>

\* C30 witness: with a stored user and an empty catalog the recommendation was rejected
C30_WitnessNoItems ==
    /\ reply.op = "recommend"
    /\ reply.status = "error"
    /\ reply.detail[3] = "No items found. Please scrape items first."
    /\ users_json # <<>>
    /\ recommendations_json = <<>>


----------------------------------------------------------------------------
(* Every projected item has its event, checked under SpecConcurrent.       *)

\* the kind of event that puts an item into a list of the projection
ClaimKindOf(list) ==
    IF list = "liked_items" THEN "like"
    ELSE IF list = "disliked_items" THEN "dislike"
    ELSE "save"

\* C28: in every reachable state, every item in the liked (disliked, saved) items of a
\* stored user has a like (dislike, save) event of that user for that item in
\* feedback.json, in whatever order the record_feedback calls in flight are served.
C28_ProjectedItemsHaveEvents ==
    \A k \in 1..Len(users_json) :
        \A list \in {"liked_items", "disliked_items", "saved_items"} :
            \A item_id \in Projection(users_json[k].id, list) :
                \E e \in 1..Len(feedback_json) :
                    /\ feedback_json[e].user_id = users_json[k].id
                    /\ feedback_json[e].item_id = item_id
                    /\ feedback_json[e].feedback_type = ClaimKindOf(list)


----------------------------------------------------------------------------
(* The range of the popularity score, checked under SpecAggregate.         *)

\* C29: for every item and every log that record_feedback built, the popularity score
\* of get_item_feedback_summary lies in [0, 20] (0..200 tenths), and it is 0 for an
\* item whose events have a negative mean importance.
C29_PopularityWithinTwenty ==
    ItemSummarized =>
        LET its == EventsWith("item_id", reply.item_id)
            s == reply.summary
        IN  /\ s.popularity_score >= 0
            /\ s.popularity_score <= 200
            /\ ClaimImportance(its) < 0 => s.popularity_score = 0

\* C29 witness: an item with likes only, more than one, scores 20
C29_Witness ==
    /\ ItemSummarized
    /\ reply.summary.total_feedback >= 2
    /\ DOMAIN reply.summary.feedback_breakdown = {"like"}
    /\ reply.summary.popularity_score = 200

\* C29 witness: a like and two dislikes of an item, mean importance -0.2, score 0
C29_WitnessNegativeMean ==
    /\ ItemSummarized
    /\ reply.summary.feedback_breakdown = ("like" :> 1 @@ "dislike" :> 2)
    /\ ClaimImportance(EventsWith("item_id", reply.item_id)) < 0
    /\ reply.summary.popularity_score = 0

====
